---- MODULE Spec2Model ----
(***************************************************************************)
(* A model of the OpenStax MCP server (worker entry point, JSON-RPC        *)
(* dispatcher, cache-or-fetch pipelines, markup extractor, generators and  *)
(* search indexer).                                                        *)
(*                                                                         *)
(* JavaScript strings are modelled as sequences of one-character strings,  *)
(* so that concatenation, substring search, case folding and trimming are  *)
(* computed, not assumed.  The value `undefined' of a string-valued slot   *)
(* is the sentinel Undefined, which is no sequence of characters.          *)
(***************************************************************************)
EXTENDS Integers, Sequences, FiniteSets, TLC

\* The property names of the objects and records below.
PropertyNames ==
  DOMAIN [ arguments |-> 0, body |-> 0, calls |-> 0, cell_type |-> 0, cells |-> 0,
           children |-> 0, code |-> 0, collOk |-> 0, content |-> 0, cors |-> 0,
           count |-> 0, data |-> 0, description |-> 0, detail |-> 0, difficulty |-> 0,
           document |-> 0, done |-> 0, download_url |-> 0, embedOk |-> 0,
           failAt |-> 0, fn |-> 0, from_cache |-> 0, genOk |-> 0, given |-> 0,
           health |-> 0, html_url |-> 0, id |-> 0, images |-> 0,
           include_images |-> 0, include_solutions |-> 0, indexed |-> 0,
           isError |-> 0, json |-> 0, jsonrpc |-> 0, key |-> 0, kind |-> 0,
           language |-> 0, limit |-> 0, max_modules |-> 0, mediaOk |-> 0,
           message |-> 0, metadata |-> 0, method |-> 0, module |-> 0,
           moduleOk |-> 0, module_id |-> 0, modules |-> 0, msg |-> 0, n |-> 0,
           name |-> 0, nb |-> 0, nbformat |-> 0, nbformat_minor |-> 0, none |-> 0,
           notebook |-> 0, of |-> 0, ok |-> 0, op |-> 0, outcomes |-> 0, para |-> 0, params |-> 0,
           parses |-> 0, payload |-> 0, pp |-> 0, present |-> 0, problems |-> 0, prompt |-> 0,
           protocolVersion |-> 0, query |-> 0, queryOk |-> 0, raw_xml |-> 0,
           repo |-> 0, reposOk |-> 0, response |-> 0, rest |-> 0, result |-> 0, results |-> 0,
           s |-> 0, sample |-> 0, serverInfo |-> 0, source |-> 0,
           stargazers_count |-> 0, stars |-> 0, state |-> 0, status |-> 0, subcollection |-> 0,
           subject |-> 0, tag |-> 0, target |-> 0, tc |-> 0, text |-> 0,
           textbook_id |-> 0, textbooks |-> 0, threw |-> 0, title |-> 0,
           tools |-> 0, total_modules |-> 0, updated |-> 0, updated_at |-> 0,
           upsertOk |-> 0, url |-> 0, value |-> 0, values |-> 0, vec |-> 0,
           version |-> 0, w |-> 0, wellFormed |-> 0, xmlBody |-> 0, xmlOk |-> 0 ]

\* ------------------------------------------------------------------------
\* Strings
\* ------------------------------------------------------------------------

Undefined == <<"#undefined">>
Null == <<"#null">>

EmptyString == <<>>

IsString(s) == s # Undefined /\ s # Null

\* JavaScript truthiness of a string-valued slot: undefined, null and ''
\* are falsy.
Truthy(s) == s # Undefined /\ s # Null /\ s # EmptyString

\* `${v}` in a template literal.
Str(v) ==
  IF v = Undefined THEN <<"u", "n", "d", "e", "f", "i", "n", "e", "d">>
  ELSE IF v = Null THEN <<"n", "u", "l", "l">>
  ELSE v

\* String.prototype.startsWith
StartsWith(s, p) == Len(p) <= Len(s) /\ SubSeq(s, 1, Len(p)) = p

\* The first index at which p occurs in s, or 0.
IndexOf(s, p) ==
  LET hits == {i \in 1..(Len(s) - Len(p) + 1) : SubSeq(s, i, i + Len(p) - 1) = p}
  IN IF hits = {} THEN 0 ELSE CHOOSE i \in hits : \A j \in hits : i <= j

\* String.prototype.includes
Includes(s, p) == p = EmptyString \/ IndexOf(s, p) # 0

\* String.prototype.replace with a string pattern: the first occurrence only.
ReplaceFirst(s, p, r) ==
  LET i == IndexOf(s, p)
  IN IF i = 0 THEN s
     ELSE SubSeq(s, 1, i - 1) \o r \o SubSeq(s, i + Len(p), Len(s))

\* String.prototype.replace with a /g pattern: every occurrence, left to right.
RECURSIVE ReplaceAll(_, _, _)
ReplaceAll(s, p, r) ==
  LET i == IndexOf(s, p)
  IN IF i = 0 \/ p = EmptyString THEN s
     ELSE SubSeq(s, 1, i - 1) \o r \o ReplaceAll(SubSeq(s, i + Len(p), Len(s)), p, r)

UpperCase == <<"A", "B", "C", "F", "H", "I", "L", "P", "S", "Y">>
LowerCase == <<"a", "b", "c", "f", "h", "i", "l", "p", "s", "y">>

LowerChar(c) ==
  IF \E i \in 1..Len(UpperCase) : UpperCase[i] = c
  THEN LowerCase[CHOOSE i \in 1..Len(UpperCase) : UpperCase[i] = c]
  ELSE c

\* String.prototype.toLowerCase
ToLowerCase(s) == [i \in 1..Len(s) |-> LowerChar(s[i])]

WhiteSpace == {" ", "\n", "\t"}

RECURSIVE TrimStart(_)
TrimStart(s) ==
  IF s # <<>> /\ Head(s) \in WhiteSpace THEN TrimStart(Tail(s)) ELSE s

RECURSIVE TrimEnd(_)
TrimEnd(s) ==
  IF s # <<>> /\ s[Len(s)] \in WhiteSpace THEN TrimEnd(SubSeq(s, 1, Len(s) - 1)) ELSE s

\* String.prototype.trim
Trim(s) == TrimEnd(TrimStart(s))

\* The whole string or array, whatever the end index.
SliceAll(s, n) == s

\* String.prototype.slice(0, n)
Slice(s, n) == SubSeq(s, 1, IF n < Len(s) THEN n ELSE Len(s))

RECURSIVE Concat(_)
Concat(ss) == IF ss = <<>> THEN <<>> ELSE Head(ss) \o Concat(Tail(ss))

\* ------------------------------------------------------------------------
\* Markup extractor: module listing
\* ------------------------------------------------------------------------

s_Untitled == <<"U", "n", "t", "i", "t", "l", "e", "d">>
s_Unknown == <<"U", "n", "k", "n", "o", "w", "n">>

\* An element of a collection document, as written in the source XML:
\* a module (document attribute and title child, either may be missing) or
\* a subcollection with its child elements in document order.
XmlModule(doc, title) ==
  [children |-> <<>>, document |-> doc, tag |-> "module", title |-> title]
XmlSubcollection(children) ==
  [children |-> children, document |-> Undefined, tag |-> "subcollection",
   title |-> Undefined]

\* xml2js (explicitArray, no explicitChildren): the children of an element
\* are grouped by tag name, each group in document order; the order between
\* children of different tags is not kept.
RECURSIVE ParseElement(_)
ParseElement(children) ==
  LET mods == SelectSeq(children, LAMBDA e : e.tag = "module")
      subs == SelectSeq(children, LAMBDA e : e.tag = "subcollection")
  IN [module |-> [i \in 1..Len(mods) |->
                    [document |-> mods[i].document, title |-> mods[i].title]],
      subcollection |-> [i \in 1..Len(subs) |-> ParseElement(subs[i].children)]]

\* traverse pushing a reference for every module element, with or without a
\* document attribute.
RECURSIVE traverseEveryModule(_)
traverseEveryModule(node) ==
  [i \in 1..Len(node.module) |->
     [id |-> node.module[i].document,
      title |-> IF Truthy(node.module[i].title) THEN node.module[i].title ELSE s_Untitled]]
  \o Concat([i \in 1..Len(node.subcollection) |->
               traverseEveryModule(node.subcollection[i])])

\* The pushes of one call of traverse(node), in order.
RECURSIVE traverse(_)
traverse(node) ==
  LET withDoc == SelectSeq(node.module, LAMBDA mod : Truthy(mod.document))
  IN [i \in 1..Len(withDoc) |->
        [id |-> withDoc[i].document,
         title |-> IF Truthy(withDoc[i].title) THEN withDoc[i].title ELSE s_Untitled]]
     \o Concat([i \in 1..Len(node.subcollection) |-> traverse(node.subcollection[i])])

\* extractModules(collection); collection.content is the array of parsed
\* <content> elements.
extractModules(collection) ==
  Concat([i \in 1..Len(collection.content) |-> traverse(collection.content[i])])

\* ------------------------------------------------------------------------
\* Markup extractor: text content
\* ------------------------------------------------------------------------

\* A node handed to extractTextContent: undefined, null, a string, or an
\* object with an optional array of para children and an optional direct
\* text `_' (Undefined when the element has none).
UndefinedNode == [kind |-> "undefined", para |-> <<>>, s |-> Undefined]
NullNode == [kind |-> "null", para |-> <<>>, s |-> Null]
StringNode(s) == [kind |-> "string", para |-> <<>>, s |-> s]
ObjectNode(para, text) == [kind |-> "object", para |-> para, s |-> text]

s_BlankLine == <<"\n", "\n">>

\* extractTextContent handing a falsy node back as it is.
RECURSIVE extractTextContentUnguarded(_)
extractTextContentUnguarded(node) ==
  IF node.kind \in {"undefined", "null"} \/ (node.kind = "string" /\ node.s = EmptyString)
  THEN node.s
  ELSE IF node.kind = "string" THEN node.s
  ELSE LET paras == Concat([i \in 1..Len(node.para) |->
                              Str(extractTextContentUnguarded(node.para[i])) \o s_BlankLine])
           own == IF Truthy(node.s) THEN node.s ELSE EmptyString
       IN Trim(paras \o own)

RECURSIVE extractTextContent(_)
extractTextContent(node) ==
  IF node.kind \in {"undefined", "null"} \/ (node.kind = "string" /\ node.s = EmptyString)
  THEN EmptyString
  ELSE IF node.kind = "string" THEN node.s
  ELSE LET paras == Concat([i \in 1..Len(node.para) |->
                              extractTextContent(node.para[i]) \o s_BlankLine])
           own == IF Truthy(node.s) THEN node.s ELSE EmptyString
       IN Trim(paras \o own)

\* ------------------------------------------------------------------------
\* String constants of the source
\* ------------------------------------------------------------------------

s_osbooks == <<"o", "s", "b", "o", "o", "k", "s", "-">>
s_template == <<"t", "e", "m", "p", "l", "a", "t", "e">>
s_playground == <<"p", "l", "a", "y", "g", "r", "o", "u", "n", "d">>
s_fisica == <<"f", "i", "s", "i", "c", "a">>
s_quimica == <<"q", "u", "i", "m", "i", "c", "a">>
s_calculo == <<"c", "a", "l", "c", "u", "l", "o">>
s_fizyka == <<"f", "i", "z", "y", "k", "a">>
s_mikroekonomia == <<"m", "i", "k", "r", "o", "e", "k", "o", "n", "o", "m", "i", "a">>
s_psychologia == <<"p", "s", "y", "c", "h", "o", "l", "o", "g", "i", "a">>
s_bundle == <<"b", "u", "n", "d", "l", "e">>
s_all == <<"a", "l", "l">>
s_en == <<"e", "n">>
s_es == <<"e", "s">>
s_pl == <<"p", "l">>
s_medium == <<"m", "e", "d", "i", "u", "m">>
s_hard == <<"h", "a", "r", "d">>
s_us == <<"_">>
k_textbooks_list == <<"t", "e", "x", "t", "b", "o", "o", "k", "s", "_", "l", "i", "s", "t", "_">>
k_structure == <<"s", "t", "r", "u", "c", "t", "u", "r", "e", "_">>
k_module == <<"m", "o", "d", "u", "l", "e", "_">>
k_problems == <<"p", "r", "o", "b", "l", "e", "m", "s", "_">>
k_notebook == <<"n", "o", "t", "e", "b", "o", "o", "k", "_">>

\* ------------------------------------------------------------------------
\* State
\* ------------------------------------------------------------------------

VARIABLES
  TEXTBOOK_CACHE,     \* KV region: key -> stored JSON (listing, structure, module entries)
  PRACTICE_PROBLEMS,  \* KV region: key -> stored JSON
  NOTEBOOKS,          \* KV region: key -> stored JSON
  VECTORIZE,          \* vector index: id -> [values, metadata]
  httpRequest,        \* the HTTP request last handled by the worker's fetch
  httpResponse,       \* the Response it returned
  calls,              \* the external calls made while handling it, in order
  input,              \* markup extractor: the source document given
  output,             \* markup extractor: the extraction result
  stdin,              \* CLI bridge: the text not yet delivered in a data event
  consumed,           \* CLI bridge: the text delivered so far
  buffer,             \* CLI bridge: let buffer
  posts,              \* CLI bridge: the invocations of post(), in order
  stdout,             \* CLI bridge: the lines written by console.log
  tasks               \* worker: the requests being served, each at an await

vars == <<TEXTBOOK_CACHE, PRACTICE_PROBLEMS, NOTEBOOKS, VECTORIZE,
          httpRequest, httpResponse, calls, input, output,
          stdin, consumed, buffer, posts, stdout, tasks>>

serverVars == <<TEXTBOOK_CACHE, PRACTICE_PROBLEMS, NOTEBOOKS, VECTORIZE,
                httpRequest, httpResponse, calls>>

markupVars == <<input, output>>

bridgeVars == <<stdin, consumed, buffer, posts, stdout>>

\* The empty KV namespace / vector index: a function with no key.
EmptyStore == [k \in {} |-> TRUE]

\* A put that is lost.
PutDropped(store, key, value) == store

Put(store, key, value) ==
  [k \in DOMAIN store \cup {key} |-> IF k = key THEN value ELSE store[k]]

Remove(store, key) == [k \in DOMAIN store \ {key} |-> store[k]]

\* The shared external state a request works on, with the log of the
\* external calls it has made so far.
World == [calls |-> <<>>, nb |-> NOTEBOOKS, pp |-> PRACTICE_PROBLEMS,
          tc |-> TEXTBOOK_CACHE, vec |-> VECTORIZE]

Call(op, target, key, ok) == [key |-> key, ok |-> ok, op |-> op, target |-> target]

Log(w, call) == [w EXCEPT !.calls = Append(@, call)]

\* Results of the asynchronous operations: a value, or a thrown error.
NoValue == [none |-> TRUE]
Ret(w, v) == [msg |-> "", threw |-> FALSE, value |-> v, w |-> w]
Throw(w, m) == [msg |-> m, threw |-> TRUE, value |-> NoValue, w |-> w]

\* JSON.stringify followed by JSON.parse on a result object: a property whose
\* value is undefined is dropped.
StringFields == {"title", "content", "module_id", "textbook_id", "difficulty", "raw_xml"}
JsonRoundTrip(obj) ==
  [f \in {g \in DOMAIN obj : ~(g \in StringFields /\ obj[g] = Undefined)} |-> obj[f]]

\* ------------------------------------------------------------------------
\* The upstream hosting API (fixed content; statuses are drawn per call)
\* ------------------------------------------------------------------------

Repo(name, description, stars) ==
  [description |-> description, html_url |-> <<"u">> \o name, name |-> name,
   stargazers_count |-> stars, updated_at |-> <<"d">>]

\* GET /orgs/openstax/repos
UpstreamRepos ==
  << Repo(s_osbooks \o <<"p", "h", "y", "s", "i", "c", "s">>, Null, 3),
     Repo(s_osbooks \o s_fisica \o <<"-">> \o s_bundle, <<"f">>, 2),
     Repo(s_osbooks \o <<"A", "P", "-", "P", "h", "y", "s", "i", "c", "s">>, Null, 1),
     Repo(s_osbooks \o <<"p", "h", "y", "s", "i", "c", "s", "-">> \o s_calculo, Null, 0),
     Repo(s_osbooks \o s_fizyka, Null, 0),
     Repo(s_osbooks \o s_playground, Null, 0),
     Repo(<<"c", "n", "x", "-">> \o s_osbooks \o <<"x">>, Null, 5) >>

\* The outcomes of the external calls of one request.
AllOk ==
  [collOk |-> TRUE, embedOk |-> TRUE, failAt |-> <<>>, genOk |-> TRUE,
   mediaOk |-> TRUE, moduleOk |-> TRUE, queryOk |-> TRUE, reposOk |-> TRUE,
   sample |-> "s1", upsertOk |-> TRUE, xmlBody |-> "document", xmlOk |-> TRUE]

\* ------------------------------------------------------------------------
\* listTextbooks
\* ------------------------------------------------------------------------

\* The status check left out.
StatusIgnored(ok) == FALSE

\* !response.ok
NotOk(ok) == ~ok

NoArgs == [present |-> FALSE]

\* The language inferred from the repository name without its prefix.
InferLanguage(name) ==
  IF Includes(name, s_fisica) \/ Includes(name, s_quimica) \/ Includes(name, s_calculo)
  THEN s_es
  ELSE IF Includes(name, s_fizyka) \/ Includes(name, s_mikroekonomia)
          \/ Includes(name, s_psychologia)
  THEN s_pl
  ELSE s_en

IsTextbookRepo(r) ==
  StartsWith(r.name, s_osbooks)
  /\ ~(Includes(r.name, s_template) \/ Includes(r.name, s_playground))

ToTextbook(r) ==
  LET name == ReplaceFirst(r.name, s_osbooks, EmptyString)
  IN [description |-> r.description,
      id |-> r.name,
      language |-> InferLanguage(name),
      name |-> Trim(ReplaceAll(ReplaceAll(name, <<"-">>, <<" ">>), s_bundle, EmptyString)),
      repo |-> r.html_url,
      stars |-> r.stargazers_count,
      updated |-> r.updated_at]

\* The two post-filters joined by `or'.
MatchesEitherFilter(t, subject, language) ==
  \/ (~Truthy(subject) \/ Includes(ToLowerCase(t.name), ToLowerCase(subject)))
  \/ (~Truthy(language) \/ t.language = language)

MatchesFilters(t, subject, language) ==
  /\ (~Truthy(subject) \/ Includes(ToLowerCase(t.name), ToLowerCase(subject)))
  /\ (~Truthy(language) \/ t.language = language)

ListCacheKey(subject, language) ==
  k_textbooks_list \o (IF Truthy(subject) THEN subject ELSE s_all) \o s_us
    \o (IF Truthy(language) THEN language ELSE s_all)

listTextbooks(w, params, o) ==
  IF ~params.present THEN Throw(w, "TypeError")
  ELSE
    LET subject == params.subject
        language == params.language
        cacheKey == ListCacheKey(subject, language)
        w1 == Log(w, Call("kv.get", "TEXTBOOK_CACHE", cacheKey, TRUE))
    IN IF cacheKey \in DOMAIN w.tc
       THEN Ret(w1, [w.tc[cacheKey] EXCEPT !.from_cache = TRUE])
       ELSE
         LET w2 == Log(w1, Call("fetch", "repos", EmptyString, o.reposOk))
         IN IF NotOk(o.reposOk) THEN Throw(w2, "GitHub API error")
            ELSE
              LET mapped == [i \in 1..Len(SelectSeq(UpstreamRepos, IsTextbookRepo)) |->
                               ToTextbook(SelectSeq(UpstreamRepos, IsTextbookRepo)[i])]
                  textbooks == SelectSeq(mapped,
                                 LAMBDA t : MatchesFilters(t, subject, language))
                  result == [count |-> Len(textbooks), from_cache |-> FALSE,
                             textbooks |-> textbooks]
                  w3 == Log([w2 EXCEPT !.tc = Put(@, cacheKey, JsonRoundTrip(result))],
                            Call("kv.put", "TEXTBOOK_CACHE", cacheKey, TRUE))
              IN Ret(w3, result)

\* ------------------------------------------------------------------------
\* Upstream textbooks and modules
\* ------------------------------------------------------------------------

t_a == <<"a">>
t_ab == <<"a", "_", "b">>
m_c == <<"c">>
m_bc == <<"b", "_", "c">>
t_d == <<"d">>
m_e == <<"e">>

\* GET /repos/openstax/<t>/contents/collections: is there a file whose name
\* ends with .collection.xml ?
HasCollectionFile(t) == t \in {t_a, t_d}

\* The collection document of a textbook, as written upstream.
\* Textbook d has three modules; every other textbook has a module inside a
\* subcollection, a module without a title and a module element without a
\* document reference.
UpstreamCollection(t) ==
  [content |-> IF t = t_d
               THEN << << XmlModule(m_c, <<"O", "n", "e">>),
                          XmlModule(m_bc, Undefined),
                          XmlModule(m_e, <<"E">>) >> >>
               ELSE << << XmlSubcollection(<< XmlModule(m_c, <<"O", "n", "e">>) >>),
                          XmlModule(m_bc, Undefined),
                          XmlModule(Undefined, <<"L">>) >> >>,
   metadata |-> <<"m", "d">>,
   title |-> <<"T">>]

\* parseStringPromise on a collection document.
ParseCollection(doc) ==
  [content |-> [i \in 1..Len(doc.content) |-> ParseElement(doc.content[i])],
   metadata |-> doc.metadata,
   title |-> doc.title]

\* The index.cnxml of a module, as parsed: well-formed or not, its title and
\* its first content element.
UpstreamModule(t, m) ==
  IF t \in {t_a, t_d} /\ m = m_c
  THEN [content |-> ObjectNode(<< StringNode(<<"x", " ">>),
                                  ObjectNode(<<>>, <<"y">>) >>, <<" ", "z", "\n">>),
        title |-> <<"O", "n", "e">>,
        wellFormed |-> TRUE]
  ELSE IF t \in {t_a, t_d} /\ m = m_bc
  THEN [content |-> UndefinedNode, title |-> Undefined, wellFormed |-> TRUE]
  ELSE IF t = t_d /\ m = m_e
  THEN [content |-> StringNode(<<" ", "e">>), title |-> <<"E">>, wellFormed |-> TRUE]
  ELSE IF t = t_ab /\ m = m_c
  THEN [content |-> StringNode(EmptyString), title |-> <<"T", "w", "o">>, wellFormed |-> TRUE]
  ELSE [content |-> UndefinedNode, title |-> Undefined, wellFormed |-> FALSE]

RawXml(t, m) == <<"<">> \o t \o <<"/">> \o m \o <<">">>

\* GET /repos/openstax/<t>/contents/modules/<m>/media
UpstreamMedia(t, m) ==
  IF t = t_a /\ m = m_c
  THEN << [download_url |-> <<"u", "f">>, name |-> <<"f">>] >>
  ELSE <<>>

\* ------------------------------------------------------------------------
\* getTextbookStructure
\* ------------------------------------------------------------------------

StructureCacheKey(textbook_id) == k_structure \o Str(textbook_id)

getTextbookStructure(w, params, o) ==
  IF ~params.present THEN Throw(w, "TypeError")
  ELSE
    LET textbook_id == params.textbook_id
        cacheKey == StructureCacheKey(textbook_id)
        w1 == Log(w, Call("kv.get", "TEXTBOOK_CACHE", cacheKey, TRUE))
    IN IF cacheKey \in DOMAIN w.tc
       THEN Ret(w1, [w.tc[cacheKey] EXCEPT !.from_cache = TRUE])
       ELSE
         LET w2 == Log(w1, Call("fetch", "collections", textbook_id, o.collOk))
         IN IF NotOk(o.collOk) THEN Throw(w2, "Failed to fetch collections")
            ELSE IF ~HasCollectionFile(textbook_id) THEN Throw(w2, "No collection.xml found")
            ELSE
              \* the status of this download is not examined
              LET w3 == Log(w2, Call("fetch", "collection.xml", textbook_id, o.xmlOk))
              IN IF o.xmlBody = "garbage" THEN Throw(w3, "XML parse error")
                 ELSE IF o.xmlBody = "other root"
                 THEN Throw(w3, "TypeError")  \* extractModules(undefined)
                 ELSE
                   LET parsed == ParseCollection(UpstreamCollection(textbook_id))
                       result == [from_cache |-> FALSE,
                                  metadata |-> parsed.metadata,
                                  modules |-> extractModules(parsed),
                                  title |-> IF Truthy(parsed.title) THEN parsed.title
                                            ELSE s_Unknown]
                       w4 == Log([w3 EXCEPT !.tc = Put(@, cacheKey, JsonRoundTrip(result))],
                                 Call("kv.put", "TEXTBOOK_CACHE", cacheKey, TRUE))
                   IN Ret(w4, result)

\* ------------------------------------------------------------------------
\* getModuleContent
\* ------------------------------------------------------------------------

ModuleCacheKey(textbook_id, module_id) ==
  k_module \o Str(textbook_id) \o s_us \o Str(module_id)

\* The media listing fetched whatever include_images is.
getModuleContentWithMedia(w, params, moduleOk, mediaOk) ==
  LET textbook_id == params.textbook_id
      module_id == params.module_id
      include_images == TRUE
      cacheKey == ModuleCacheKey(textbook_id, module_id)
      w1 == Log(w, Call("kv.get", "TEXTBOOK_CACHE", cacheKey, TRUE))
  IN IF cacheKey \in DOMAIN w.tc
     THEN Ret(w1, [w.tc[cacheKey] EXCEPT !.from_cache = TRUE])
     ELSE
       LET w2 == Log(w1, Call("fetch", "module", cacheKey, moduleOk))
           doc == UpstreamModule(textbook_id, module_id)
       IN IF NotOk(moduleOk) THEN Throw(w2, "Module not found")
          ELSE IF ~doc.wellFormed THEN Throw(w2, "XML parse error")
          ELSE
            LET content == [content |-> extractTextContent(doc.content),
                            from_cache |-> FALSE,
                            module_id |-> module_id,
                            raw_xml |-> RawXml(textbook_id, module_id),
                            title |-> IF Truthy(doc.title) THEN doc.title ELSE s_Untitled]
                w3 == IF include_images
                      THEN Log(w2, Call("fetch", "media", cacheKey, mediaOk))
                      ELSE w2
                media == UpstreamMedia(textbook_id, module_id)
                withImages ==
                  IF include_images /\ mediaOk
                  THEN [f \in DOMAIN content \cup {"images"} |->
                          IF f = "images"
                          THEN [i \in 1..Len(media) |->
                                  [name |-> media[i].name, url |-> media[i].download_url]]
                          ELSE content[f]]
                  ELSE content
                w4 == Log([w3 EXCEPT !.tc = Put(@, cacheKey, JsonRoundTrip(withImages))],
                          Call("kv.put", "TEXTBOOK_CACHE", cacheKey, TRUE))
            IN Ret(w4, withImages)

\* include_images is "undefined", "true" or "false"; its default is true.
getModuleContent(w, params, moduleOk, mediaOk) ==
  LET textbook_id == params.textbook_id
      module_id == params.module_id
      include_images == params.include_images # "false"
      cacheKey == ModuleCacheKey(textbook_id, module_id)
      w1 == Log(w, Call("kv.get", "TEXTBOOK_CACHE", cacheKey, TRUE))
  IN IF cacheKey \in DOMAIN w.tc
     THEN Ret(w1, [w.tc[cacheKey] EXCEPT !.from_cache = TRUE])
     ELSE
       LET w2 == Log(w1, Call("fetch", "module", cacheKey, moduleOk))
           doc == UpstreamModule(textbook_id, module_id)
       IN IF NotOk(moduleOk) THEN Throw(w2, "Module not found")
          ELSE IF ~doc.wellFormed THEN Throw(w2, "XML parse error")
          ELSE
            LET content == [content |-> extractTextContent(doc.content),
                            from_cache |-> FALSE,
                            module_id |-> module_id,
                            raw_xml |-> RawXml(textbook_id, module_id),
                            title |-> IF Truthy(doc.title) THEN doc.title ELSE s_Untitled]
                w3 == IF include_images
                      THEN Log(w2, Call("fetch", "media", cacheKey, mediaOk))
                      ELSE w2
                media == UpstreamMedia(textbook_id, module_id)
                withImages ==
                  IF include_images /\ mediaOk
                  THEN [f \in DOMAIN content \cup {"images"} |->
                          IF f = "images"
                          THEN [i \in 1..Len(media) |->
                                  [name |-> media[i].name, url |-> media[i].download_url]]
                          ELSE content[f]]
                  ELSE content
                w4 == Log([w3 EXCEPT !.tc = Put(@, cacheKey, JsonRoundTrip(withImages))],
                          Call("kv.put", "TEXTBOOK_CACHE", cacheKey, TRUE))
            IN Ret(w4, withImages)

\* ------------------------------------------------------------------------
\* Generators
\* ------------------------------------------------------------------------

\* An optional numeric argument: given or not, and its value.
NoNumber == [given |-> FALSE, n |-> 0]
Number(n) == [given |-> TRUE, n |-> n]

DefaultCount == 5
DefaultLimit == 5
DefaultMaxModules == 20
ProblemExcerpt == 3000
NotebookExcerpt == 500
EmbeddingExcerpt == 1000

\* A key made of the textbook id and the module id alone.
ProblemsCacheKeyOfModule(textbook_id, module_id, difficulty) ==
  k_problems \o Str(textbook_id) \o s_us \o Str(module_id)

ProblemsCacheKey(textbook_id, module_id, difficulty) ==
  k_problems \o Str(textbook_id) \o s_us \o Str(module_id) \o s_us \o Str(difficulty)

\* The entry stored before the generative call is made.
GenerateProblemsStoringFirst(md, module_id, difficulty, count, cacheKey, o) ==
  IF md.threw THEN md
  ELSE IF ~o.genOk
  THEN Throw([md.w EXCEPT !.pp = Put(@, cacheKey, [difficulty |-> difficulty,
                                                   from_cache |-> FALSE,
                                                   module_id |-> module_id]),
                          !.calls = @ \o << Call("kv.put", "PRACTICE_PROBLEMS", cacheKey, TRUE),
                                            Call("ai.run", "llama", cacheKey, FALSE) >>],
             "AI error")
  ELSE
    LET prompt == [content |-> Slice(md.value.content, ProblemExcerpt), count |-> count,
                   difficulty |-> difficulty,
                   title |-> md.value.title]
        problems == [difficulty |-> difficulty,
                     from_cache |-> FALSE,
                     module_id |-> module_id,
                     problems |-> [prompt |-> prompt, sample |-> o.sample]]
    IN Ret([md.w EXCEPT !.pp = Put(@, cacheKey, JsonRoundTrip(problems)),
                        !.calls = @ \o << Call("ai.run", "llama", cacheKey, TRUE),
                                          Call("kv.put", "PRACTICE_PROBLEMS", cacheKey, TRUE) >>],
           problems)

\* The part of generatePracticeProblems after the module content md has been
\* resolved: the prompt, the generative call and the store.
GenerateProblems(md, module_id, difficulty, count, cacheKey, o) ==
  IF md.threw THEN md
  ELSE IF ~o.genOk
  THEN Throw(Log(md.w, Call("ai.run", "llama", cacheKey, FALSE)), "AI error")
  ELSE
    LET prompt == [content |-> Slice(md.value.content, ProblemExcerpt), count |-> count,
                   difficulty |-> difficulty,
                   title |-> md.value.title]
        problems == [difficulty |-> difficulty,
                     from_cache |-> FALSE,
                     module_id |-> module_id,
                     problems |-> [prompt |-> prompt, sample |-> o.sample]]
    IN Ret([md.w EXCEPT !.pp = Put(@, cacheKey, JsonRoundTrip(problems)),
                        !.calls = @ \o << Call("ai.run", "llama", cacheKey, TRUE),
                                          Call("kv.put", "PRACTICE_PROBLEMS", cacheKey, TRUE) >>],
           problems)

generatePracticeProblems(w, params, o) ==
  IF ~params.present THEN Throw(w, "TypeError")
  ELSE
    LET textbook_id == params.textbook_id
        module_id == params.module_id
        difficulty == IF params.difficulty = Undefined THEN s_medium ELSE params.difficulty
        count == IF params.count.given THEN params.count.n ELSE DefaultCount
        cacheKey == ProblemsCacheKey(textbook_id, module_id, difficulty)
    IN IF cacheKey \in DOMAIN w.pp
       THEN Ret(Log(w, Call("kv.get", "PRACTICE_PROBLEMS", cacheKey, TRUE)),
                [w.pp[cacheKey] EXCEPT !.from_cache = TRUE])
       ELSE GenerateProblems(
              getModuleContent(Log(w, Call("kv.get", "PRACTICE_PROBLEMS", cacheKey, TRUE)),
                               [include_images |-> "false", module_id |-> module_id,
                                textbook_id |-> textbook_id],
                               o.moduleOk, o.mediaOk),
              module_id, difficulty, count, cacheKey, o)

NotebookCacheKey(textbook_id, module_id) ==
  k_notebook \o Str(textbook_id) \o s_us \o Str(module_id)

\* The template without its last cell.
NotebookOfThreeCells(title, module_id, content) ==
  [cells |-> << [cell_type |-> "markdown", source |-> <<title, module_id>>],
                [cell_type |-> "code", source |-> << <<"i", "m", "p", "o", "r", "t">> >>],
                [cell_type |-> "markdown", source |-> << Slice(content, NotebookExcerpt) >>] >>,
   nbformat |-> 4,
   nbformat_minor |-> 5]

Notebook(title, module_id, content) ==
  [cells |-> << [cell_type |-> "markdown", source |-> <<title, module_id>>],
                [cell_type |-> "code", source |-> << <<"i", "m", "p", "o", "r", "t">> >>],
                [cell_type |-> "markdown", source |-> << Slice(content, NotebookExcerpt) >>],
                [cell_type |-> "code", source |-> << <<"T", "O", "D", "O">> >>] >>,
   nbformat |-> 4,
   nbformat_minor |-> 5]

\* The part of generateJupyterNotebook after the module content md has been
\* resolved: the template and the store.
AssembleNotebook(md, textbook_id, module_id, cacheKey) ==
  IF md.threw THEN md
  ELSE
    LET result == [from_cache |-> FALSE,
                   module_id |-> module_id,
                   notebook |-> Notebook(md.value.title, module_id, md.value.content),
                   textbook_id |-> textbook_id]
    IN Ret([md.w EXCEPT !.nb = Put(@, cacheKey, JsonRoundTrip(result)),
                        !.calls = Append(@, Call("kv.put", "NOTEBOOKS", cacheKey, TRUE))],
           result)

generateJupyterNotebook(w, params, o) ==
  IF ~params.present THEN Throw(w, "TypeError")
  ELSE
    LET textbook_id == params.textbook_id
        module_id == params.module_id
        cacheKey == NotebookCacheKey(textbook_id, module_id)
    IN IF cacheKey \in DOMAIN w.nb
       THEN Ret(Log(w, Call("kv.get", "NOTEBOOKS", cacheKey, TRUE)),
                [w.nb[cacheKey] EXCEPT !.from_cache = TRUE])
       ELSE AssembleNotebook(
              getModuleContent(Log(w, Call("kv.get", "NOTEBOOKS", cacheKey, TRUE)),
                               [include_images |-> "false", module_id |-> module_id,
                                textbook_id |-> textbook_id],
                               o.moduleOk, o.mediaOk),
              textbook_id, module_id, cacheKey)

\* ------------------------------------------------------------------------
\* Search indexer and query engine
\* ------------------------------------------------------------------------

\* The embedding model, as a function of the text it is given.
Embedding(text) == [of |-> text]

semanticSearch(w, params, o) ==
  IF ~params.present THEN Throw(w, "TypeError")
  ELSE
    LET limit == IF params.limit.given THEN params.limit.n ELSE DefaultLimit
        w1 == Log(w, Call("ai.run", "bge", params.query, o.embedOk))
        w2 == Log(w1, Call("vectorize.query", "VECTORIZE", params.query, o.queryOk))
        hits == {id \in DOMAIN w.vec :
                   ~Truthy(params.textbook_id)
                   \/ w.vec[id].metadata.textbook_id = params.textbook_id}
        top == IF Cardinality(hits) <= limit THEN hits
               ELSE CHOOSE S \in SUBSET hits : Cardinality(S) = limit
    IN IF ~o.embedOk THEN Throw(w1, "AI error")
       ELSE IF ~o.queryOk THEN Throw(w2, "Vectorize error")
       ELSE Ret(w2, [query |-> params.query,
                     results |-> {[metadata |-> w.vec[id].metadata, module_id |-> id] :
                                    id \in top}])

\* An id made of the textbook id alone.
VectorIdOfTextbook(textbook_id, module_id) == Str(textbook_id)

VectorId(textbook_id, module_id) == Str(textbook_id) \o s_us \o Str(module_id)

\* The loop body after the content mc of the module has been resolved: embed
\* and upsert.  failAt is the step of this module that fails ("none",
\* "content", "embed" or "upsert"); a failure is caught and the module skipped.
EmbedAndUpsert(mc, textbook_id, module, failAt) ==
  IF mc.threw THEN [indexed |-> 0, w |-> mc.w]
  ELSE IF failAt = "embed"
  THEN [indexed |-> 0, w |-> Log(mc.w, Call("ai.run", "bge", module.id, FALSE))]
  ELSE IF failAt = "upsert"
  THEN [indexed |-> 0,
        w |-> [mc.w EXCEPT !.calls = @ \o << Call("ai.run", "bge", module.id, TRUE),
                                             Call("vectorize.upsert", "VECTORIZE",
                                                  module.id, FALSE) >>]]
  ELSE
    LET text == module.title \o <<" ">> \o Slice(mc.value.content, EmbeddingExcerpt)
        entry == [metadata |-> [module_id |-> module.id, textbook_id |-> textbook_id,
                                title |-> module.title],
                  values |-> Embedding(text)]
    IN [indexed |-> 1,
        w |-> [mc.w EXCEPT !.vec = Put(@, VectorId(textbook_id, module.id), entry),
                           !.calls = @ \o << Call("ai.run", "bge", module.id, TRUE),
                                             Call("vectorize.upsert", "VECTORIZE",
                                                  module.id, TRUE) >>]]

\* One pass of the loop body.
IndexOne(w, textbook_id, module, failAt) ==
  EmbedAndUpsert(getModuleContent(w, [include_images |-> "false", module_id |-> module.id,
                                      textbook_id |-> textbook_id],
                                  failAt # "content", TRUE),
                 textbook_id, module, failAt)

\* indexed++ after every pass, failed or not.
AccumulateEvery(acc, one) == [indexed |-> acc.indexed + 1, w |-> one.w]

\* indexed++ after a pass that succeeded.
Accumulate(acc, one) == [indexed |-> acc.indexed + one.indexed, w |-> one.w]

\* The for loop over modulesToIndex from position i on; acc is the state of
\* the stores and the counter `indexed' so far.
RECURSIVE IndexLoop(_, _, _, _, _)
IndexLoop(acc, textbook_id, modules, i, failAt) ==
  IF i > Len(modules) THEN acc
  ELSE IndexLoop(Accumulate(acc, IndexOne(acc.w, textbook_id, modules[i], failAt[i])),
                 textbook_id, modules, i + 1, failAt)

\* The value indexTextbookForSearch returns after the loop.
IndexReport(done, total_modules, textbook_id) ==
  Ret(done.w, [indexed |-> done.indexed, textbook_id |-> textbook_id,
               total_modules |-> total_modules])

\* The part of indexTextbookForSearch after the structure st has been resolved.
IndexModules(st, textbook_id, max_modules, o) ==
  IF st.threw THEN st
  ELSE IndexReport(IndexLoop([indexed |-> 0, w |-> st.w], textbook_id,
                             Slice(st.value.modules, max_modules), 1, o.failAt),
                   Len(st.value.modules), textbook_id)

indexTextbookForSearch(w, params, o) ==
  IF ~params.present THEN Throw(w, "TypeError")
  ELSE IndexModules(getTextbookStructure(w, [present |-> TRUE,
                                             textbook_id |-> params.textbook_id], o),
                    params.textbook_id,
                    IF params.max_modules.given THEN params.max_modules.n
                    ELSE DefaultMaxModules,
                    o)

\* ------------------------------------------------------------------------
\* Protocol dispatcher
\* ------------------------------------------------------------------------

ToolNames ==
  <<"list_textbooks", "get_textbook_structure", "get_module_content", "semantic_search",
    "generate_practice_problems", "generate_jupyter_notebook", "index_textbook_for_search">>

ToolNameSet == {ToolNames[i] : i \in 1..Len(ToolNames)}

NullId == "null"

NoMessage == [detail |-> "", text |-> ""]

\* errorResponse dropping the id it is given.
errorResponseNullId(id, code, message) ==
  [code |-> code, id |-> NullId, isError |-> TRUE, jsonrpc |-> "2.0", message |-> message,
   result |-> NoValue]

\* errorResponse reporting every error as an internal error.
errorResponseInternal(id, code, message) ==
  [code |-> -32603, id |-> id, isError |-> TRUE, jsonrpc |-> "2.0", message |-> message,
   result |-> NoValue]

errorResponse(id, code, message) ==
  [code |-> code, id |-> id, isError |-> TRUE, jsonrpc |-> "2.0", message |-> message,
   result |-> NoValue]

resultResponse(id, result) ==
  [code |-> 0, id |-> id, isError |-> FALSE, jsonrpc |-> "2.0", message |-> NoMessage,
   result |-> result]

handleInitialize(request) ==
  resultResponse(request.id, [protocolVersion |-> "2024-11-05",
                              serverInfo |-> [name |-> "openstax-mcp-server",
                                              version |-> "2.0.0"]])

handleToolsList(request) == resultResponse(request.id, [tools |-> ToolNames])

\* The tool a name selects, run on the arguments.
RunTool(w, name, args, o) ==
  CASE name = "list_textbooks" -> listTextbooks(w, args, o)
    [] name = "get_textbook_structure" -> getTextbookStructure(w, args, o)
    [] name = "get_module_content" ->
         IF ~args.present THEN Throw(w, "TypeError")
         ELSE getModuleContent(w, args, o.moduleOk, o.mediaOk)
    [] name = "semantic_search" -> semanticSearch(w, args, o)
    [] name = "generate_practice_problems" -> generatePracticeProblems(w, args, o)
    [] name = "generate_jupyter_notebook" -> generateJupyterNotebook(w, args, o)
    [] name = "index_textbook_for_search" -> indexTextbookForSearch(w, args, o)

\* The catch block of handleToolCall answering with a result.
ToolEnvelopeSwallowing(id, r) == Ret(r.w, resultResponse(id, [none |-> r.threw]))

\* handleToolCall is async: an error thrown in it, outside its own try block,
\* rejects the promise it returns.
\* The try block of handleToolCall around the tool's outcome r: the result
\* envelope, or the error response for what the tool threw.
ToolEnvelope(id, r) ==
  IF r.threw
  THEN Ret(r.w, errorResponse(id, -32603,
                              [detail |-> r.msg, text |-> "Tool execution error"]))
  ELSE Ret(r.w, resultResponse(id, JsonRoundTrip(r.value)))

handleToolCall(w, request, o) ==
  IF ~request.params.present
  THEN Throw(w, "TypeError")  \* destructuring of undefined, before the try
  ELSE IF request.params.name \notin ToolNameSet
  THEN Ret(w, errorResponse(request.id, -32602,
                            [detail |-> request.params.name, text |-> "Unknown tool"]))
  ELSE ToolEnvelope(request.id,
                    RunTool(w, request.params.name, request.params.arguments, o))

\* handleRequest returns the promise of handleToolCall without awaiting it, so
\* its catch block sees only what the switch itself throws; a rejection of
\* that promise is passed on to the caller.
handleRequest(w, request, o) ==
  CASE request.method = "initialize" -> Ret(w, handleInitialize(request))
    [] request.method = "tools/list" -> Ret(w, handleToolsList(request))
    [] request.method = "tools/call" -> handleToolCall(w, request, o)
    [] OTHER -> Ret(w, errorResponse(request.id, -32601,
                                     [detail |-> request.method, text |-> "Method not found"]))

\* ------------------------------------------------------------------------
\* Worker entry point
\* ------------------------------------------------------------------------

NoBody == [json |-> NoValue, parses |-> FALSE]
JsonBody(json) == [json |-> json, parses |-> TRUE]

NoRequest == [body |-> NoBody, health |-> FALSE, method |-> "none"]
NoResponse == [body |-> NoValue, cors |-> FALSE, kind |-> "none", status |-> 0]

Response(kind, status, cors, body) ==
  [body |-> body, cors |-> cors, kind |-> kind, status |-> status]

\* The parse-error response sent like a regular response (no status set).
ParseErrorResponseOk ==
  Response("mcp", 200, TRUE,
           errorResponse(NullId, -32700, [detail |-> "", text |-> "Parse error"]))

ParseErrorResponse ==
  Response("mcp", 400, FALSE,
           errorResponse(NullId, -32700, [detail |-> "", text |-> "Parse error"]))

\* The try block of the MCP endpoint around the outcome r of
\* `await server.handleRequest(mcpRequest)'.
McpEndpoint(r) ==
  IF r.threw THEN [response |-> ParseErrorResponse, w |-> r.w]
  ELSE [response |-> Response("mcp", 200, TRUE, r.value), w |-> r.w]

\* fetch(request, env): the response and the state of the stores afterwards.
fetch(w, req, o) ==
  IF req.method = "OPTIONS" THEN [response |-> Response("preflight", 200, TRUE, NoValue), w |-> w]
  ELSE IF req.health THEN [response |-> Response("health", 200, FALSE, NoValue), w |-> w]
  ELSE IF req.method = "POST"
  THEN IF ~req.body.parses THEN [response |-> ParseErrorResponse, w |-> w]
       ELSE McpEndpoint(handleRequest(w, req.body.json, o))
  ELSE [response |-> Response("default", 200, FALSE, NoValue), w |-> w]

\* ------------------------------------------------------------------------
\* Requests and call outcomes explored
\* ------------------------------------------------------------------------

Ids == {"id1", "id2"}

NoParams == [present |-> FALSE]
Params(name, args) == [arguments |-> args, name |-> name, present |-> TRUE]
McpRequest(id, method, params) ==
  [id |-> id, jsonrpc |-> "2.0", method |-> method, params |-> params]
Post(json) == [body |-> JsonBody(json), health |-> FALSE, method |-> "POST"]
ToolCall(id, name, args) == Post(McpRequest(id, "tools/call", Params(name, args)))

ListArgs(subject, language) ==
  [language |-> language, present |-> TRUE, subject |-> subject]
StructureArgs(t) == [present |-> TRUE, textbook_id |-> t]
ModuleArgs(t, m, img) ==
  [include_images |-> img, module_id |-> m, present |-> TRUE, textbook_id |-> t]
SearchArgs(q, t, limit) ==
  [limit |-> limit, present |-> TRUE, query |-> q, textbook_id |-> t]
ProblemsArgs(t, m, difficulty, count) ==
  [count |-> count, difficulty |-> difficulty, module_id |-> m, present |-> TRUE,
   textbook_id |-> t]
NotebookArgs(t, m, sol) ==
  [include_solutions |-> sol, module_id |-> m, present |-> TRUE, textbook_id |-> t]
IndexArgs(t, max) == [max_modules |-> max, present |-> TRUE, textbook_id |-> t]

s_PHY == <<"P", "H", "Y">>

\* The outcomes of the external calls explored for each tool: values of the
\* call outcomes, not part of the program.
ListOutcomes == {[AllOk EXCEPT !.reposOk = ok] : ok \in BOOLEAN}

StructureOutcomes ==
  {[AllOk EXCEPT !.collOk = collOk, !.xmlBody = body, !.xmlOk = xmlOk] :
     collOk \in BOOLEAN, xmlOk \in BOOLEAN, body \in {"document", "garbage", "other root"}}

StructureStatuses == {[AllOk EXCEPT !.collOk = collOk] : collOk \in BOOLEAN}

ModuleOutcomes ==
  {[AllOk EXCEPT !.mediaOk = mediaOk, !.moduleOk = moduleOk] :
     moduleOk \in BOOLEAN, mediaOk \in BOOLEAN}

ModuleStatuses == {[AllOk EXCEPT !.moduleOk = moduleOk] : moduleOk \in BOOLEAN}

SearchOutcomes ==
  {AllOk, [AllOk EXCEPT !.embedOk = FALSE], [AllOk EXCEPT !.queryOk = FALSE]}

ProblemsOutcomes ==
  {AllOk, [AllOk EXCEPT !.moduleOk = FALSE], [AllOk EXCEPT !.genOk = FALSE]}

\* As above, with a second text the generative model may return.
GeneratorOutcomes == ProblemsOutcomes \cup {[AllOk EXCEPT !.sample = "s2"]}

FailSteps == {"none", "content", "embed", "upsert"}

IndexOutcomes ==
  {[AllOk EXCEPT !.failAt = <<f>>] : f \in FailSteps}
    \cup {[AllOk EXCEPT !.collOk = FALSE, !.failAt = <<"none">>]}

\* For a textbook of up to three modules: the failing step of each module.
IndexPlans ==
  {[AllOk EXCEPT !.failAt = <<f1, f2, f3>>] : f1 \in FailSteps, f2 \in FailSteps,
                                             f3 \in FailSteps}
    \cup {[AllOk EXCEPT !.collOk = FALSE, !.failAt = <<"none", "none", "none">>]}

\* ------------------------------------------------------------------------
\* Actions
\* ------------------------------------------------------------------------

\* One HTTP request handled by the worker, from arrival to response.
Exchange(req, r) ==
  /\ TEXTBOOK_CACHE' = r.w.tc
  /\ PRACTICE_PROBLEMS' = r.w.pp
  /\ NOTEBOOKS' = r.w.nb
  /\ VECTORIZE' = r.w.vec
  /\ httpRequest' = req
  /\ httpResponse' = r.response
  /\ calls' = r.w.calls
  /\ UNCHANGED <<markupVars, bridgeVars, tasks>>

Handle(req, o) == Exchange(req, fetch(World, req, o))

UnparsableBody == [json |-> [none |-> FALSE], parses |-> FALSE]

CorsPreflight ==
  \E h \in BOOLEAN :
    /\ Handle([body |-> NoBody, health |-> h, method |-> "OPTIONS"], AllOk)

HealthCheck ==
  \E m \in {"GET", "POST"} :
    /\ Handle([body |-> IF m = "POST" THEN UnparsableBody ELSE NoBody,
               health |-> TRUE, method |-> m], AllOk)

DefaultRoute ==
  \E m \in {"GET"} :
    /\ Handle([body |-> NoBody, health |-> FALSE, method |-> m], AllOk)

PostUnparsable ==
  \E m \in {"POST"} :
    /\ Handle([body |-> UnparsableBody, health |-> FALSE, method |-> m], AllOk)

Initialize ==
  \E id \in Ids, p \in {NoParams, Params("x", NoArgs)} :
    /\ Handle(Post(McpRequest(id, "initialize", p)), AllOk)

ToolsList ==
  \E id \in Ids :
    /\ Handle(Post(McpRequest(id, "tools/list", NoParams)), AllOk)

UnknownMethod ==
  \E id \in Ids, m \in {"resources/list", "ping"},
     p \in {NoParams, Params("list_textbooks", ListArgs(Undefined, Undefined))} :
    /\ Handle(Post(McpRequest(id, m, p)), AllOk)

ToolCallWithoutParams ==
  \E id \in Ids :
    /\ Handle(Post(McpRequest(id, "tools/call", NoParams)), AllOk)

ToolCallUnknownTool ==
  \E id \in Ids, name \in {"delete_textbook", "#undefined"},
     args \in {NoArgs, StructureArgs(t_a)} :
    /\ Handle(ToolCall(id, name, args), AllOk)

ToolCallWithoutArguments ==
  \E id \in Ids, name \in ToolNameSet :
    /\ Handle(ToolCall(id, name, NoArgs), AllOk)

CallListTextbooks(ids, Subjects, Languages) ==
  \E id \in ids, subject \in Subjects, language \in Languages, o \in ListOutcomes :
    /\ Handle(ToolCall(id, "list_textbooks", ListArgs(subject, language)), o)

CallGetTextbookStructure(ids, Textbooks, Outcomes) ==
  \E id \in ids, t \in Textbooks, o \in Outcomes :
    /\ Handle(ToolCall(id, "get_textbook_structure", StructureArgs(t)), o)

CallGetModuleContent(ids, Textbooks, Modules, Images, Outcomes) ==
  \E id \in ids, t \in Textbooks, m \in Modules, img \in Images, o \in Outcomes :
    /\ Handle(ToolCall(id, "get_module_content", ModuleArgs(t, m, img)), o)

CallSemanticSearch(ids, Textbooks) ==
  \E id \in ids, t \in Textbooks, o \in SearchOutcomes :
    /\ Handle(ToolCall(id, "semantic_search", SearchArgs(<<"q">>, t, NoNumber)), o)

CallGeneratePracticeProblems(ids, Textbooks, Modules, Difficulties, Counts, Outcomes) ==
  \E id \in ids, t \in Textbooks, m \in Modules, d \in Difficulties, c \in Counts,
     o \in Outcomes :
    /\ Handle(ToolCall(id, "generate_practice_problems", ProblemsArgs(t, m, d, c)), o)

CallGenerateJupyterNotebook(ids, Textbooks, Modules, Solutions) ==
  \E id \in ids, t \in Textbooks, m \in Modules, sol \in Solutions, o \in ModuleStatuses :
    /\ Handle(ToolCall(id, "generate_jupyter_notebook", NotebookArgs(t, m, sol)), o)

CallIndexTextbookForSearch(ids, Textbooks, Maxes, Outcomes) ==
  \E id \in ids, t \in Textbooks, max \in Maxes, o \in Outcomes :
    /\ Handle(ToolCall(id, "index_textbook_for_search", IndexArgs(t, max)), o)

\* The stored entry of a key runs out (expirationTtl); the exchange on
\* record is dropped with it.
Forget ==
  /\ httpRequest' = NoRequest
  /\ httpResponse' = NoResponse
  /\ calls' = <<>>
  /\ UNCHANGED <<VECTORIZE, input, output, bridgeVars, tasks>>

ExpireTextbookCache ==
  \E k \in DOMAIN TEXTBOOK_CACHE :
    /\ TEXTBOOK_CACHE' = Remove(TEXTBOOK_CACHE, k)
    /\ UNCHANGED <<PRACTICE_PROBLEMS, NOTEBOOKS>>
    /\ Forget

ExpirePracticeProblems ==
  \E k \in DOMAIN PRACTICE_PROBLEMS :
    /\ PRACTICE_PROBLEMS' = Remove(PRACTICE_PROBLEMS, k)
    /\ UNCHANGED <<TEXTBOOK_CACHE, NOTEBOOKS>>
    /\ Forget

ExpireNotebooks ==
  \E k \in DOMAIN NOTEBOOKS :
    /\ NOTEBOOKS' = Remove(NOTEBOOKS, k)
    /\ UNCHANGED <<TEXTBOOK_CACHE, PRACTICE_PROBLEMS>>
    /\ Forget

\* ------------------------------------------------------------------------
\* The markup extractor on its own
\* ------------------------------------------------------------------------

\* The largest number of elements of a collection document explored.
MaxNodes == 4

\* The module elements a document is built from: with both attributes, without
\* a title, without a document reference.
ModuleElements ==
  {XmlModule(m_c, <<"O", "n", "e">>), XmlModule(m_bc, Undefined), XmlModule(Undefined, <<"L">>)}

\* The sequences of sibling elements with n elements in all, and the single
\* elements with n elements in all (an element counts itself).
RECURSIVE ForestsOfSize(_), ElementsOfSize(_)
ForestsOfSize(n) ==
  IF n = 0 THEN {<<>>}
  ELSE UNION {{<<e>> \o f : e \in ElementsOfSize(k), f \in ForestsOfSize(n - k)} : k \in 1..n}
ElementsOfSize(n) ==
  IF n = 1 THEN ModuleElements \cup {XmlSubcollection(<<>>)}
  ELSE {XmlSubcollection(f) : f \in ForestsOfSize(n - 1)}

Forests == UNION {ForestsOfSize(n) : n \in 0..MaxNodes}

NoInput == [content |-> <<>>, fn |-> "none"]
NoOutput == [done |-> FALSE, modules |-> <<>>]

\* parseStringPromise on a collection document whose <content> holds the
\* given elements, then extractModules on its root.
ApplyExtractModules ==
  /\ input.fn = "extractModules"
  /\ ~output.done
  /\ output' = [done |-> TRUE,
                modules |-> extractModules(ParseCollection(
                              [content |-> <<input.content>>, metadata |-> <<>>,
                               title |-> <<"T">>]))]
  /\ UNCHANGED <<serverVars, input, bridgeVars, tasks>>

\* The character data a content subtree is built from.
Texts == {<<" ", "x">>, <<"y", "\n">>}

\* The sequences of sibling nodes with n nodes in all, and the single nodes
\* with n nodes in all: a plain text node, or an object node with para
\* children and with or without direct text.
RECURSIVE ParasOfSize(_), NodesOfSize(_)
ParasOfSize(n) ==
  IF n = 0 THEN {<<>>}
  ELSE UNION {{<<e>> \o f : e \in NodesOfSize(k), f \in ParasOfSize(n - k)} : k \in 1..n}
NodesOfSize(n) ==
  {ObjectNode(f, t) : f \in ParasOfSize(n - 1), t \in Texts \cup {Undefined}}
    \cup (IF n = 1 THEN {StringNode(t) : t \in Texts} ELSE {})

ContentNodes == UNION {NodesOfSize(n) : n \in 1..MaxNodes}

\* extractTextContent on the first content element of a parsed module document.
ApplyExtractTextContent ==
  /\ input.fn = "extractTextContent"
  /\ ~output.done
  /\ output' = [done |-> TRUE, text |-> extractTextContent(input.content)]
  /\ UNCHANGED <<serverVars, input, bridgeVars, tasks>>

\* ------------------------------------------------------------------------
\* The CLI bridge (packages/cli/index.js)
\* ------------------------------------------------------------------------

\* JSON values: null, a number, a string, an object with its members in
\* source order (pairs of key and value), and undefined for a missing
\* property.
JUndefined == [kind |-> "undefined", n |-> 0, of |-> <<>>]
JNull == [kind |-> "null", n |-> 0, of |-> <<>>]
JNumber(n) == [kind |-> "number", n |-> n, of |-> <<>>]
JString(s) == [kind |-> "string", n |-> 0, of |-> s]
JObject(members) == [kind |-> "object", n |-> 0, of |-> members]

s_null == <<"n", "u", "l", "l">>
s_id == <<"i", "d">>

Digits == <<"0", "1", "2", "3", "4", "5", "6", "7", "8", "9">>

IsDigit(c) == \E i \in 1..Len(Digits) : Digits[i] = c

DigitValue(c) == (CHOOSE i \in 1..Len(Digits) : Digits[i] = c) - 1

\* The longest prefix of s made of digits.
RECURSIVE DigitPrefix(_)
DigitPrefix(s) ==
  IF s # <<>> /\ IsDigit(Head(s)) THEN <<Head(s)>> \o DigitPrefix(Tail(s)) ELSE <<>>

RECURSIVE NumberOf(_)
NumberOf(digits) ==
  IF digits = <<>> THEN 0
  ELSE 10 * NumberOf(SubSeq(digits, 1, Len(digits) - 1)) + DigitValue(digits[Len(digits)])

\* The outcome of parsing a value at the start of a text: the value and the
\* text left after it.
Parsed(value, rest) == [ok |-> TRUE, rest |-> rest, value |-> value]
SyntaxError == [ok |-> FALSE, rest |-> <<>>, value |-> JUndefined]

\* A number: a zero, or digits without a leading zero.
ParseNumber(s) ==
  IF Head(s) = "0" THEN Parsed(JNumber(0), Tail(s))
  ELSE Parsed(JNumber(NumberOf(DigitPrefix(s))),
              SubSeq(s, Len(DigitPrefix(s)) + 1, Len(s)))

\* A string after its opening quote: the characters up to the next quote
\* (texts with escape sequences are not explored).
ParseString(s) ==
  IF IndexOf(s, <<"\"">>) = 0 \/ Includes(SubSeq(s, 1, IndexOf(s, <<"\"">>)), <<"\\">>)
  THEN SyntaxError
  ELSE Parsed(JString(SubSeq(s, 1, IndexOf(s, <<"\"">>) - 1)),
              SubSeq(s, IndexOf(s, <<"\"">>) + 1, Len(s)))

\* The grammar of JSON.parse for null, numbers, strings and objects; s is the
\* text with its leading white space removed.
RECURSIVE ParseValue(_), ParseMembers(_, _), AfterKey(_, _, _), AfterMember(_, _, _, _)
ParseValue(s) ==
  IF s = <<>> THEN SyntaxError
  ELSE IF StartsWith(s, s_null) THEN Parsed(JNull, SubSeq(s, Len(s_null) + 1, Len(s)))
  ELSE IF IsDigit(Head(s)) THEN ParseNumber(s)
  ELSE IF Head(s) = "\"" THEN ParseString(Tail(s))
  ELSE IF Head(s) = "{"
  THEN IF TrimStart(Tail(s)) # <<>> /\ Head(TrimStart(Tail(s))) = "}"
       THEN Parsed(JObject(<<>>), Tail(TrimStart(Tail(s))))
       ELSE ParseMembers(TrimStart(Tail(s)), <<>>)
  ELSE SyntaxError

\* The members of an object from the key at the start of s on; acc holds the
\* members read before.
ParseMembers(s, acc) ==
  IF s = <<>> \/ Head(s) # "\"" THEN SyntaxError
  ELSE AfterKey(ParseString(Tail(s)), ParseString(Tail(s)).rest, acc)

AfterKey(key, rest, acc) ==
  IF ~key.ok \/ TrimStart(rest) = <<>> \/ Head(TrimStart(rest)) # ":" THEN SyntaxError
  ELSE AfterMember(key, ParseValue(TrimStart(Tail(TrimStart(rest)))),
                   TrimStart(ParseValue(TrimStart(Tail(TrimStart(rest)))).rest), acc)

AfterMember(key, v, rest, acc) ==
  IF ~v.ok \/ rest = <<>> THEN SyntaxError
  ELSE IF Head(rest) = ","
  THEN ParseMembers(TrimStart(Tail(rest)), Append(acc, <<key.value.of, v.value>>))
  ELSE IF Head(rest) = "}"
  THEN Parsed(JObject(Append(acc, <<key.value.of, v.value>>)), Tail(rest))
  ELSE SyntaxError

\* JSON.parse: the value, or a SyntaxError thrown when the text is no value
\* followed by white space only.
JSONparseOf(r) ==
  IF r.ok /\ TrimStart(r.rest) = <<>>
  THEN [json |-> r.value, parses |-> TRUE]
  ELSE [json |-> JUndefined, parses |-> FALSE]

JSONparse(text) == JSONparseOf(ParseValue(TrimStart(text)))

\* Object.keys(payload).length: the property names of an object, the indices
\* of a string, nothing for a number.
KeyCount(payload) ==
  IF payload.kind = "object" THEN Cardinality({payload.of[i][1] : i \in 1..Len(payload.of)})
  ELSE IF payload.kind = "string" THEN Len(payload.of)
  ELSE 0

\* !payload || Object.keys(payload).length === 0
IsFalsy(payload) ==
  \/ payload.kind \in {"null", "undefined"}
  \/ payload.kind = "number" /\ payload.n = 0
  \/ payload.kind = "string" /\ payload.of = <<>>

\* payload[name]: the value of the last member of that name.
Property(payload, name) ==
  IF payload.kind = "object" /\ \E i \in 1..Len(payload.of) : payload.of[i][1] = name
  THEN payload.of[CHOOSE i \in 1..Len(payload.of) :
                    /\ payload.of[i][1] = name
                    /\ \A j \in (i + 1)..Len(payload.of) : payload.of[j][1] # name][2]
  ELSE JUndefined

\* post(payload) up to its first await: it returns at once for a falsy
\* payload or one without keys, and starts the fetch otherwise.
post(payload) ==
  [data |-> JUndefined, payload |-> payload,
   state |-> IF IsFalsy(payload) \/ KeyCount(payload) = 0 THEN "returned" ELSE "fetching"]

\* String.prototype.split('\n'): the pieces between the newlines, the last
\* piece being what follows the last newline.
RECURSIVE Split(_)
Split(s) ==
  IF IndexOf(s, <<"\n">>) = 0 THEN <<s>>
  ELSE <<SubSeq(s, 1, IndexOf(s, <<"\n">>) - 1)>>
         \o Split(SubSeq(s, IndexOf(s, <<"\n">>) + 1, Len(s)))

\* The chunk alone, without what was buffered.
ChunkOnly(buffered, chunk) == chunk

\* buffer += chunk
AppendChunk(buffered, chunk) == buffered \o chunk

\* The for loop of the data handler over the complete lines: post() is called
\* for each line that is not blank and parses.
RECURSIVE ForwardLines(_, _)
ForwardLines(lines, started) ==
  IF lines = <<>> THEN started
  ELSE ForwardLines(Tail(lines),
         IF Trim(Head(lines)) # <<>> /\ JSONparse(Head(lines)).parses
         THEN Append(started, post(JSONparse(Head(lines)).json))
         ELSE started)

\* process.stdin.on('data'): the handler run on a chunk after which the given
\* text is left undelivered.
HandleChunk(lines, left) ==
  /\ buffer' = lines[Len(lines)]
  /\ posts' = ForwardLines(SubSeq(lines, 1, Len(lines) - 1), posts)
  /\ stdin' = left
  /\ UNCHANGED <<stdout, serverVars, markupVars, tasks>>

\* A data event with the next n characters of the input.
OnData ==
  \E n \in 1..Len(stdin) :
    /\ consumed' = consumed \o SubSeq(stdin, 1, n)
    /\ HandleChunk(Split(AppendChunk(buffer, SubSeq(stdin, 1, n))),
                   SubSeq(stdin, n + 1, Len(stdin)))

\* What the remote endpoint makes of a forwarded request: a response with
\* status 200 whose body carries the id of the request, a response with
\* another status, a body that is no JSON, or no response at all.
Answers == {"answer", "status", "garbage", "network"}

\* The body of the worker's response: id is request.id, absent when the
\* request has none.
AnswerTo(payload) == JObject(<< <<s_id, Property(payload, s_id)>> >>)

SetPost(i, state, data) == [posts EXCEPT ![i] = [@ EXCEPT !.data = data, !.state = state]]

\* await fetch(url, ...) settles: a rejection is caught and silenced, a
\* response that is not ok is dropped, any other is read.
FetchSettles ==
  \E i \in 1..Len(posts), a \in Answers :
    /\ posts[i].state = "fetching"
    /\ posts' = IF a \in {"network", "status"}
                THEN SetPost(i, "dropped", JUndefined)
                ELSE SetPost(i, "reading",
                             IF a = "answer" THEN AnswerTo(posts[i].payload) ELSE JUndefined)
    /\ UNCHANGED <<stdin, consumed, buffer, stdout, serverVars, markupVars, tasks>>

\* await response.json() settles: a body that does not parse is silenced, a
\* body whose id is null or undefined is dropped, any other is written.
BodyRead ==
  \E i \in 1..Len(posts) :
    /\ posts[i].state = "reading"
    /\ IF posts[i].data.kind = "undefined"
          \/ Property(posts[i].data, s_id).kind \in {"null", "undefined"}
       THEN /\ posts' = SetPost(i, "dropped", posts[i].data)
            /\ stdout' = stdout
       ELSE /\ posts' = SetPost(i, "written", posts[i].data)
            /\ stdout' = Append(stdout, posts[i].data)
    /\ UNCHANGED <<stdin, consumed, buffer, serverVars, markupVars, tasks>>

\* The largest number of complete lines of an input explored.
MaxLines == 2

Quoted(s) == <<"\"">> \o s \o <<"\"">>

\* {"id":<value>}
RequestLine(value) == <<"{">> \o Quoted(s_id) \o <<":">> \o value \o <<"}">>

\* The lines explored: requests with a number, a string or null as id, an
\* object without id, an object without members, a blank line and a text
\* that does not parse.
Lines ==
  { RequestLine(<<"1">>), <<" ">> \o RequestLine(Quoted(<<"b">>)), RequestLine(s_null),
    <<"{">> \o Quoted(<<"m">>) \o <<":", "1", "}">>, <<"{", " ", "}">>, <<" ">>,
    <<"{">> \o Quoted(s_id) \o <<":", "1">> }

\* What may follow the last newline.
Tails == {<<>>, RequestLine(<<"2">>)}

RECURSIVE TextsOfLines(_)
TextsOfLines(n) ==
  IF n = 0 THEN {<<>>}
  ELSE {l \o <<"\n">> \o t : l \in Lines, t \in TextsOfLines(n - 1)}

Streams == {t \o tail : t \in UNION {TextsOfLines(n) : n \in 0..MaxLines}, tail \in Tails}

\* ------------------------------------------------------------------------
\* Requests served concurrently: listTextbooks and getModuleContent, one
\* step per await
\* ------------------------------------------------------------------------

\* The largest number of requests served in one run.
MaxTasks == 2

\* The stores with nothing in them.
Cold == [calls |-> <<>>, nb |-> EmptyStore, pp |-> EmptyStore, tc |-> EmptyStore,
         vec |-> EmptyStore]

\* The key a tool computes from its arguments before its first await.
CacheKeyOf(name, args) == RunTool(Cold, name, args, AllOk).w.calls[1].key

\* What a tool builds and stores when it finds no entry and its fetches end
\* with the given outcomes.
FetchedAndTransformed(name, args, o) == RunTool(Cold, name, args, o)

\* A request dispatched to its tool, at the await of the cache lookup.
Task(name, args) ==
  [arguments |-> args, name |-> name, outcomes |-> AllOk, state |-> "get",
   threw |-> FALSE, value |-> NoValue]

\* The entry returned as it was stored, without the flag set.
ServedAsStored(entry) == entry

\* { ...cached, from_cache: true }
ServedFromCache(entry) == [entry EXCEPT !.from_cache = TRUE]

\* The state of a task after its first fetch: the error thrown, or the await
\* of the media listing (get_module_content with include_images), or the await
\* of the put.
AfterFirstFetch(t, o) ==
  IF FetchedAndTransformed(t.name, t.arguments, o).threw
  THEN [t EXCEPT !.outcomes = o, !.state = "done", !.threw = TRUE]
  ELSE [t EXCEPT !.outcomes = o,
                 !.state = IF t.name = "get_module_content"
                              /\ t.arguments.include_images # "false"
                           THEN "media" ELSE "put"]

StepOthers == UNCHANGED <<PRACTICE_PROBLEMS, NOTEBOOKS, VECTORIZE, httpRequest,
                          httpResponse, calls, markupVars, bridgeVars>>

\* A request arrives and runs up to the cache lookup.
Dispatch ==
  \E args \in {ListArgs(Undefined, Undefined), ModuleArgs(t_a, m_c, "true"),
               ModuleArgs(t_a, m_c, "false")} :
    /\ Len(tasks) < MaxTasks
    /\ tasks' = Append(tasks, Task(IF "module_id" \in DOMAIN args THEN "get_module_content"
                                   ELSE "list_textbooks", args))
    /\ UNCHANGED TEXTBOOK_CACHE
    /\ StepOthers

\* await this.env.TEXTBOOK_CACHE.get(cacheKey, 'json') settles.
CacheGet ==
  \E i \in 1..Len(tasks) :
    /\ tasks[i].state = "get"
    /\ tasks' = [tasks EXCEPT ![i] =
         IF CacheKeyOf(@.name, @.arguments) \in DOMAIN TEXTBOOK_CACHE
         THEN [@ EXCEPT !.state = "done",
                        !.value = ServedFromCache(
                                    TEXTBOOK_CACHE[CacheKeyOf(tasks[i].name,
                                                              tasks[i].arguments)])]
         ELSE [@ EXCEPT !.state = "fetch"]]
    /\ UNCHANGED TEXTBOOK_CACHE
    /\ StepOthers

\* await fetch(...) of the repository listing or of the module file settles.
UpstreamFetch ==
  \E i \in 1..Len(tasks), ok \in BOOLEAN :
    /\ tasks[i].state = "fetch"
    /\ tasks' = [tasks EXCEPT ![i] =
                   AfterFirstFetch(@, [AllOk EXCEPT !.moduleOk = ok, !.reposOk = ok])]
    /\ UNCHANGED TEXTBOOK_CACHE
    /\ StepOthers

\* await fetch(mediaUrl, ...) settles.
MediaFetch ==
  \E i \in 1..Len(tasks), ok \in BOOLEAN :
    /\ tasks[i].state = "media"
    /\ tasks' = [tasks EXCEPT ![i] = [@ EXCEPT !.outcomes.mediaOk = ok, !.state = "put"]]
    /\ UNCHANGED TEXTBOOK_CACHE
    /\ StepOthers

\* await this.env.TEXTBOOK_CACHE.put(cacheKey, JSON.stringify(...)) settles
\* and the tool returns what it built.
CachePut ==
  \E i \in 1..Len(tasks) :
    /\ tasks[i].state = "put"
    /\ TEXTBOOK_CACHE' =
         Put(TEXTBOOK_CACHE, CacheKeyOf(tasks[i].name, tasks[i].arguments),
             FetchedAndTransformed(tasks[i].name, tasks[i].arguments, tasks[i].outcomes)
               .w.tc[CacheKeyOf(tasks[i].name, tasks[i].arguments)])
    /\ tasks' = [tasks EXCEPT ![i] =
         [@ EXCEPT !.state = "done",
                   !.value = FetchedAndTransformed(tasks[i].name, tasks[i].arguments,
                                                   tasks[i].outcomes).value]]
    /\ StepOthers

\* ------------------------------------------------------------------------
\* The server
\* ------------------------------------------------------------------------

InitServer ==
  /\ TEXTBOOK_CACHE = EmptyStore
  /\ PRACTICE_PROBLEMS = EmptyStore
  /\ NOTEBOOKS = EmptyStore
  /\ VECTORIZE = EmptyStore
  /\ httpRequest = NoRequest
  /\ httpResponse = NoResponse
  /\ calls = <<>>

\* No text has reached the bridge and the worker serves no request.
Idle ==
  /\ stdin = <<>>
  /\ consumed = <<>>
  /\ buffer = <<>>
  /\ posts = <<>>
  /\ stdout = <<>>
  /\ tasks = <<>>

Init ==
  /\ InitServer
  /\ input = NoInput
  /\ output = NoOutput
  /\ Idle

\* Every route of the worker and every tool, on one textbook and one module.
Next ==
  \/ CorsPreflight
  \/ HealthCheck
  \/ DefaultRoute
  \/ PostUnparsable
  \/ Initialize
  \/ ToolsList
  \/ UnknownMethod
  \/ ToolCallWithoutParams
  \/ ToolCallUnknownTool
  \/ ToolCallWithoutArguments
  \/ CallListTextbooks(Ids, {Undefined}, {Undefined})
  \/ CallGetTextbookStructure(Ids, {t_a}, StructureStatuses)
  \/ CallGetModuleContent(Ids, {t_a}, {m_c}, {"undefined"}, ModuleStatuses)
  \/ CallSemanticSearch(Ids, {Undefined})
  \/ CallGeneratePracticeProblems(Ids, {t_a}, {m_c}, {Undefined}, {NoNumber}, ProblemsOutcomes)
  \/ CallGenerateJupyterNotebook(Ids, {t_a}, {m_c}, {"undefined"})
  \/ CallIndexTextbookForSearch(Ids, {t_a}, {Number(1)}, IndexOutcomes)
  \/ ExpireTextbookCache
  \/ ExpirePracticeProblems
  \/ ExpireNotebooks

Spec == Init /\ [][Next]_vars

\* The content resolution pipeline: every textbook, module and call outcome.
NextContent ==
  \/ CallListTextbooks({"id1"}, {Undefined}, {Undefined})
  \/ CallGetTextbookStructure({"id1"}, {t_a, t_ab}, StructureOutcomes)
  \/ CallGetModuleContent({"id1"}, {t_a, t_ab}, {m_c, m_bc},
                          {"undefined", "true", "false"}, ModuleOutcomes)
  \/ ExpireTextbookCache

SpecContent == Init /\ [][NextContent]_vars

\* The textbook listing under every filter combination.
Subjects == {Undefined, EmptyString, s_all, s_PHY}
Languages == {Undefined, s_es}

NextListing ==
  \/ CallListTextbooks({"id1"}, Subjects, Languages)
  \/ ExpireTextbookCache

SpecListing == Init /\ [][NextListing]_vars

\* The search indexer on a textbook of three modules, with every combination
\* of failing steps and a bound below and above the number of modules.
Maxes == {NoNumber, Number(2)}

NextIndexing ==
  \/ CallIndexTextbookForSearch({"id1"}, {t_d}, Maxes, IndexPlans)
  \/ ExpireTextbookCache

SpecIndexing == Init /\ [][NextIndexing]_vars

\* Every tool on one textbook, with every outcome of its external calls.
NextFailures ==
  \/ CallListTextbooks({"id1"}, {Undefined}, {Undefined})
  \/ CallGetTextbookStructure({"id1"}, {t_a}, StructureOutcomes)
  \/ CallGetModuleContent({"id1"}, {t_a}, {m_c}, {"undefined", "false"}, ModuleOutcomes)
  \/ CallSemanticSearch({"id1"}, {Undefined})
  \/ CallGeneratePracticeProblems({"id1"}, {t_a}, {m_c}, {Undefined}, {NoNumber},
                                  ProblemsOutcomes)
  \/ CallGenerateJupyterNotebook({"id1"}, {t_a}, {m_c}, {"undefined"})
  \/ CallIndexTextbookForSearch({"id1"}, {t_a}, {NoNumber}, IndexPlans)
  \/ ExpireTextbookCache
  \/ ExpirePracticeProblems
  \/ ExpireNotebooks

SpecFailures == Init /\ [][NextFailures]_vars

\* The two generators, with every difficulty, count and include_solutions
\* argument.
NextGenerators ==
  \/ CallGeneratePracticeProblems({"id1"}, {t_a}, {m_c}, {Undefined, s_medium, s_hard},
                                  {NoNumber, Number(3)}, GeneratorOutcomes)
  \/ CallGenerateJupyterNotebook({"id1"}, {t_a}, {m_c, m_bc}, {"undefined", "true", "false"})
  \/ ExpireTextbookCache
  \/ ExpirePracticeProblems
  \/ ExpireNotebooks

SpecGenerators == Init /\ [][NextGenerators]_vars

\* The tools that resolve module content, on one textbook: module c is read
\* with images and by the generators and the indexer, module b_c is read with
\* and without images; every media listing succeeds.
NextSharing ==
  \/ CallGetModuleContent({"id1"}, {t_a}, {m_c}, {"true", "undefined"}, ModuleStatuses)
  \/ CallGetModuleContent({"id1"}, {t_a}, {m_bc}, {"true", "false"}, ModuleStatuses)
  \/ CallGeneratePracticeProblems({"id1"}, {t_a}, {m_c}, {Undefined}, {NoNumber},
                                  ProblemsOutcomes)
  \/ CallGenerateJupyterNotebook({"id1"}, {t_a}, {m_c}, {"undefined"})
  \/ CallIndexTextbookForSearch({"id1"}, {t_a}, {Number(1)}, IndexOutcomes)
  \/ ExpireTextbookCache
  \/ ExpirePracticeProblems
  \/ ExpireNotebooks

SpecSharing == Init /\ [][NextSharing]_vars

\* The data handler of the bridge on every input of at most MaxLines lines,
\* delivered in chunks of every size.
InitChunks ==
  /\ InitServer
  /\ input = NoInput
  /\ output = NoOutput
  /\ stdin \in Streams
  /\ consumed = <<>>
  /\ buffer = <<>>
  /\ posts = <<>>
  /\ stdout = <<>>
  /\ tasks = <<>>

NextChunks ==
  \/ OnData

SpecChunks == InitChunks /\ [][NextChunks]_vars

\* Requests served concurrently, yielding at every await, and the expiry of
\* entries.
NextConcurrent ==
  \/ Dispatch
  \/ CacheGet
  \/ UpstreamFetch
  \/ MediaFetch
  \/ CachePut
  \/ ExpireTextbookCache

SpecConcurrent == Init /\ [][NextConcurrent]_vars

\* The bridge with its requests in flight.
NextBridge ==
  \/ OnData
  \/ FetchSettles
  \/ BodyRead

SpecBridge == InitChunks /\ [][NextBridge]_vars

\* The module listing extractor on every collection document of at most
\* MaxNodes elements.
InitMarkup ==
  /\ InitServer
  /\ input \in {[content |-> f, fn |-> "extractModules"] : f \in Forests}
  /\ output = NoOutput
  /\ Idle

NextMarkup ==
  \/ ApplyExtractModules

SpecMarkup == InitMarkup /\ [][NextMarkup]_vars

\* The text extractor on every content subtree of at most MaxNodes nodes.
InitText ==
  /\ InitServer
  /\ input \in {[content |-> node, fn |-> "extractTextContent"] : node \in ContentNodes}
  /\ output = NoOutput
  /\ Idle

NextText ==
  \/ ApplyExtractTextContent

SpecText == InitText /\ [][NextText]_vars

\* ------------------------------------------------------------------------
\* Properties of the protocol dispatcher and the transport
\* ------------------------------------------------------------------------

\* The exchange on record is a POST that reached the MCP endpoint with a body
\* that parsed; Request is the request record parsed from it.
IsMcpPost ==
  httpRequest.method = "POST" /\ ~httpRequest.health /\ httpRequest.body.parses

Request == httpRequest.body.json

IsToolCall == IsMcpPost /\ Request.method = "tools/call"

\* A tools/call that names a tool (params is an object; the name may be any
\* string or missing).
IsNamedToolCall == IsToolCall /\ Request.params.present

IsErrorWith(code) ==
  /\ httpResponse.kind = "mcp"
  /\ httpResponse.body.isError
  /\ httpResponse.body.code = code

IsSuccess ==
  IsNamedToolCall /\ httpResponse.kind = "mcp" /\ ~httpResponse.body.isError

Payload == httpResponse.body.result

Stores == <<TEXTBOOK_CACHE, PRACTICE_PROBLEMS, NOTEBOOKS, VECTORIZE>>

\* C1: every tools/call request that names a tool (one of the seven or an
\* unknown one), whether the tool succeeds or throws, is answered by
\* handleRequest with a response that carries the id of the request.
C1_ToolCallKeepsId ==
  IsNamedToolCall =>
    /\ httpResponse.kind = "mcp"
    /\ httpResponse.status = 200
    /\ httpResponse.body.id = Request.id

\* A tool threw, and the error response carries the id of the request.
C1_Witness ==
  /\ IsNamedToolCall
  /\ Request.params.name = "get_module_content"
  /\ Request.params.arguments.present
  /\ Request.id = "id2"
  /\ IsErrorWith(-32603)
  /\ httpResponse.body.id = "id2"

\* C2: every request record parsed from the body is answered by handleRequest
\* with a response carrying the request id; the parse-error branch of the
\* transport (-32700, id null) is never reached for it.
C2_NoExceptionEscapes ==
  IsMcpPost =>
    /\ httpResponse.kind = "mcp"
    /\ httpResponse.status = 200
    /\ httpResponse.body.code # -32700
    /\ httpResponse.body.id = Request.id

\* The request on record is one the dispatcher rejects before delegation.
IsUnknownMethod ==
  IsMcpPost /\ Request.method \notin {"initialize", "tools/list", "tools/call"}

IsUnknownTool == IsNamedToolCall /\ Request.params.name \notin ToolNameSet

\* C3: a request with an unknown method is answered with code -32601 and a
\* tools/call naming no tool of the catalog with code -32602; both responses
\* carry the request id, and handling the request makes no external call and
\* leaves the stores as they were.
C3_ProtocolErrorsBeforeDelegation ==
  [][ /\ IsUnknownMethod' =>
           /\ IsErrorWith(-32601)'
           /\ httpResponse'.body.id = Request'.id
           /\ calls' = <<>>
           /\ Stores' = Stores
      /\ IsUnknownTool' =>
           /\ IsErrorWith(-32602)'
           /\ httpResponse'.body.id = Request'.id
           /\ calls' = <<>>
           /\ Stores' = Stores ]_vars

\* An unknown tool was called with arguments while the stores hold entries.
C3_Witness ==
  /\ IsUnknownTool
  /\ Request.params.arguments.present
  /\ IsErrorWith(-32602)
  /\ TEXTBOOK_CACHE # EmptyStore
  /\ VECTORIZE # EmptyStore

\* C4: a POST to the MCP endpoint whose body does not parse is answered with
\* status 400, id null and code -32700; no external call is made and the
\* stores are left as they were.
C4_UnparsableBody ==
  [][ (httpRequest'.method = "POST" /\ ~httpRequest'.health
       /\ ~httpRequest'.body.parses) =>
        /\ httpResponse'.status = 400
        /\ httpResponse'.body.id = NullId
        /\ IsErrorWith(-32700)'
        /\ calls' = <<>>
        /\ Stores' = Stores ]_vars

\* An unparsable POST was answered while the stores hold entries.
C4_Witness ==
  /\ httpRequest.method = "POST"
  /\ ~httpRequest.health
  /\ ~httpRequest.body.parses
  /\ httpResponse.status = 400
  /\ PRACTICE_PROBLEMS # EmptyStore
  /\ NOTEBOOKS # EmptyStore

\* ------------------------------------------------------------------------
\* Properties of the cache-or-fetch pipelines
\* ------------------------------------------------------------------------

CachedTools ==
  {"list_textbooks", "get_textbook_structure", "get_module_content",
   "generate_practice_problems", "generate_jupyter_notebook"}

\* The exchange on record is a successful call of a cache-backed tool that
\* found no entry under its key.
IsCacheMiss ==
  IsSuccess /\ Request.params.name \in CachedTools /\ ~Payload.from_cache

NoFetchNoModelCall == \A i \in 1..Len(calls) : calls[i].op \notin {"fetch", "ai.run"}

\* C5: when a cache-backed tool has answered from a miss and the same tool is
\* called again with the same arguments before anything expires, the second
\* payload equals the first except that from_cache is true instead of false,
\* and the second call makes no external fetch and no model call.
C5_SecondCallServedFromCache ==
  [][ (IsCacheMiss /\ IsNamedToolCall'
       /\ httpRequest'.body.json.params = httpRequest.body.json.params) =>
        /\ IsSuccess'
        /\ Payload' = [Payload EXCEPT !.from_cache = TRUE]
        /\ NoFetchNoModelCall' ]_vars

\* Practice problems were served from their store without a fetch or a model call.
C5_Witness ==
  /\ IsSuccess
  /\ Request.params.name = "generate_practice_problems"
  /\ Payload.from_cache
  /\ calls # <<>>
  /\ NoFetchNoModelCall

IsModuleKey(k) == StartsWith(k, k_module)

ContentTools == {"list_textbooks", "get_textbook_structure", "get_module_content"}

IsContentCall == IsNamedToolCall /\ Request.params.name \in ContentTools

\* One of the fetches of the exchange on record, to one of the targets,
\* returned a non-success status.
FetchFailed(targets) ==
  \E i \in 1..Len(calls) :
    calls[i].op = "fetch" /\ calls[i].target \in targets /\ ~calls[i].ok

ContainsIgnoringCase(s, p) ==
  \E i \in 0..(Len(s) - Len(p)) :
    \A j \in 1..Len(p) : LowerChar(s[i + j]) = LowerChar(p[j])

\* The textbooks derived from the upstream repositories, before any filter.
DerivedTextbooks ==
  [i \in 1..Len(SelectSeq(UpstreamRepos, IsTextbookRepo)) |->
     ToTextbook(SelectSeq(UpstreamRepos, IsTextbookRepo)[i])]

\* What a listing with the given filters is to hold: the derived textbooks, in
\* upstream order, whose name contains the subject (when one is given) and
\* whose language tag is the language (when one is given).
Given(filter) == filter # Undefined /\ filter # EmptyString

Selected(subject, language) ==
  SelectSeq(DerivedTextbooks,
            LAMBDA t : /\ Given(subject) => ContainsIgnoringCase(t.name, subject)
                       /\ Given(language) => t.language = language)

IsListing == IsSuccess /\ Request.params.name = "list_textbooks"

ListingFilters == Request.params.arguments

\* C7: on a cache miss list_textbooks returns exactly the textbooks selected
\* by its subject and language filters, count is the length of that list, and
\* that list with that count is what the cache holds under the key of the call.
C7_ListingIsFiltered ==
  (IsListing /\ ~Payload.from_cache) =>
    LET expected == Selected(ListingFilters.subject, ListingFilters.language)
        key == ListCacheKey(ListingFilters.subject, ListingFilters.language)
    IN /\ Payload.textbooks = expected
       /\ Payload.count = Len(expected)
       /\ key \in DOMAIN TEXTBOOK_CACHE
       /\ TEXTBOOK_CACHE[key].textbooks = expected
       /\ TEXTBOOK_CACHE[key].count = Len(expected)

\* Both filters were given and each of them excluded a textbook the other kept.
C7_Witness ==
  /\ IsListing
  /\ ~Payload.from_cache
  /\ ListingFilters.subject = s_PHY
  /\ ListingFilters.language = s_es
  /\ Payload.count = 1
  /\ Len(Selected(s_PHY, Undefined)) > 1
  /\ Len(Selected(Undefined, s_es)) > 1

\* C8: a listing served from the cache comes from an entry written for its own
\* filter combination, so it holds what its own filters select.
C8_ServedFromOwnEntry ==
  (IsListing /\ Payload.from_cache) =>
    Payload.textbooks = Selected(ListingFilters.subject, ListingFilters.language)

\* ------------------------------------------------------------------------
\* Properties of the markup extractor
\* ------------------------------------------------------------------------

\* The document references of the module elements of a sequence of sibling
\* elements, in the order in which they occur in the document.
RECURSIVE DocumentOrder(_)
DocumentOrder(elements) ==
  IF elements = <<>> THEN <<>>
  ELSE LET e == Head(elements)
       IN (IF e.tag = "subcollection" THEN DocumentOrder(e.children)
           ELSE IF Truthy(e.document) THEN <<e.document>>
           ELSE <<>>)
          \o DocumentOrder(Tail(elements))

\* C9: extractModules returns the module references in the order in which
\* they occur in the source document.
C9_DocumentOrderPreserved ==
  output.done =>
    [i \in 1..Len(output.modules) |-> output.modules[i].id] = DocumentOrder(input.content)

HasStringContent(obj) == "content" \in DOMAIN obj /\ IsString(obj.content)

\* C10: extractTextContent returns the empty string for an absent, a null and
\* an empty content node, and the content field of every module content that
\* get_module_content returns or stores is a string.
C10_ContentIsAString ==
  /\ \A node \in {UndefinedNode, NullNode, StringNode(EmptyString)} :
       extractTextContent(node) = EmptyString
  /\ (IsSuccess /\ Request.params.name = "get_module_content") => HasStringContent(Payload)
  /\ \A k \in DOMAIN TEXTBOOK_CACHE :
       IsModuleKey(k) => HasStringContent(TEXTBOOK_CACHE[k])

\* A module without a content element was fetched, returned and stored.
C10_Witness ==
  /\ IsSuccess
  /\ Request.params.name = "get_module_content"
  /\ Request.params.arguments.textbook_id = t_a
  /\ Request.params.arguments.module_id = m_bc
  /\ ~Payload.from_cache
  /\ Payload.content = EmptyString
  /\ ModuleCacheKey(t_a, m_bc) \in DOMAIN TEXTBOOK_CACHE

\* ------------------------------------------------------------------------
\* Properties of the search indexer
\* ------------------------------------------------------------------------

\* The exchange on record is a call of index_textbook_for_search with arguments.
IsIndexCall ==
  /\ IsNamedToolCall
  /\ Request.params.name = "index_textbook_for_search"
  /\ Request.params.arguments.present

IndexedTextbook == Request.params.arguments.textbook_id

\* The structure of the textbook was resolved: it is in the cache after the
\* call, found there or stored there by it.
StructureResolved == StructureCacheKey(IndexedTextbook) \in DOMAIN TEXTBOOK_CACHE

ResolvedModules == TEXTBOOK_CACHE[StructureCacheKey(IndexedTextbook)].modules

\* The caller's bound, and the prefix of the module list it selects.
ModuleBound ==
  IF Request.params.arguments.max_modules.given
  THEN Request.params.arguments.max_modules.n
  ELSE DefaultMaxModules

PrefixLength ==
  IF ModuleBound < Len(ResolvedModules) THEN ModuleBound ELSE Len(ResolvedModules)

Attempted == SubSeq(ResolvedModules, 1, PrefixLength)

\* The rank of an external call among the steps taken for one module:
\* content resolution (cache read, download, cache write), embedding, upsert.
StepRank(call) ==
  CASE call.op = "kv.get" -> 1
    [] call.op = "fetch" -> 2
    [] call.op = "kv.put" -> 3
    [] call.op = "ai.run" -> 4
    [] call.op = "vectorize.upsert" -> 5

\* The external call is a step taken for module m of the indexed textbook.
IsStepFor(call, m) ==
  \/ call.op \in {"ai.run", "vectorize.upsert"} /\ call.key = m
  \/ /\ call.op \in {"kv.get", "fetch", "kv.put"}
     /\ call.key = ModuleCacheKey(IndexedTextbook, m)

\* The external call belongs to the resolution of the structure.
IsStructureStep(call) ==
  \/ call.target \in {"collections", "collection.xml"}
  \/ call.target = "TEXTBOOK_CACHE" /\ call.key = StructureCacheKey(IndexedTextbook)

\* A step taken for module m failed; every step for it was taken and succeeded.
StepFailed(m) == \E i \in 1..Len(calls) : IsStepFor(calls[i], m) /\ ~calls[i].ok

Upserted(m) ==
  \E i \in 1..Len(calls) :
    calls[i].op = "vectorize.upsert" /\ calls[i].key = m /\ calls[i].ok

\* C11: once the structure has been resolved, index_textbook_for_search
\* returns normally whichever steps of whichever attempted modules fail, and
\* indexed is the number of attempted modules none of whose steps failed.
C11_FailedModulesAreSkipped ==
  (IsIndexCall /\ StructureResolved) =>
    /\ IsSuccess
    /\ Payload.indexed =
         Cardinality({j \in 1..PrefixLength : ~StepFailed(Attempted[j].id)})
    /\ \A j \in 1..PrefixLength : ~StepFailed(Attempted[j].id) <=> Upserted(Attempted[j].id)

\* Three modules were attempted, the content download of the second one
\* failed, and the call reported two of three.
C11_Witness ==
  /\ IsIndexCall
  /\ IsSuccess
  /\ PrefixLength = 3
  /\ \E i \in 1..Len(calls) :
       /\ calls[i].op = "fetch"
       /\ IsStepFor(calls[i], Attempted[2].id)
       /\ ~calls[i].ok
  /\ Payload.indexed = 2
  /\ Payload.total_modules = 3

\* C12: total_modules is the number of modules the call attempted, that is
\* the length of the prefix selected by max_modules, and indexed does not
\* exceed it.
C12_TotalIsAttempted ==
  (IsIndexCall /\ IsSuccess) =>
    /\ Payload.total_modules = PrefixLength
    /\ Payload.indexed <= Payload.total_modules

\* The position in the module list of the module a step was taken for
\* (0 for a step that was taken for no module of the list).
PositionOf(call) ==
  IF \E j \in 1..Len(ResolvedModules) : IsStepFor(call, ResolvedModules[j].id)
  THEN CHOOSE j \in 1..Len(ResolvedModules) : IsStepFor(call, ResolvedModules[j].id)
  ELSE 0

\* The external calls of the exchange that follow the resolution of the structure.
ModuleSteps == SelectSeq(calls, LAMBDA call : ~IsStructureStep(call))

\* C16: the calls made after the structure has been resolved are steps for
\* the first min(max_modules, n) modules of the structure and for no other
\* module; every module of that prefix is attempted; the steps are taken one
\* module after the other in structure order, and for each module in the
\* order content resolution, embedding, upsert; a failed step is the last
\* step taken for its module, and an upsert is preceded by the embedding.
C16_BoundedPrefixInOrder ==
  (IsIndexCall /\ StructureResolved) =>
    /\ \A i \in 1..Len(calls) :
         IsStructureStep(calls[i]) => \A k \in 1..(i - 1) : IsStructureStep(calls[k])
    /\ \A i \in 1..Len(ModuleSteps) : PositionOf(ModuleSteps[i]) \in 1..PrefixLength
    /\ \A j \in 1..PrefixLength :
         \E i \in 1..Len(ModuleSteps) :
           PositionOf(ModuleSteps[i]) = j /\ ModuleSteps[i].op = "kv.get"
    /\ \A i \in 1..(Len(ModuleSteps) - 1) :
         LET this == ModuleSteps[i]
             next == ModuleSteps[i + 1]
         IN \/ PositionOf(this) + 1 = PositionOf(next) /\ StepRank(next) = 1
            \/ /\ PositionOf(this) = PositionOf(next)
               /\ StepRank(this) < StepRank(next)
               /\ this.ok
               /\ next.op = "vectorize.upsert" => this.op = "ai.run"

\* The bound cut the module list short, the second step of the first module
\* failed, and the second module was attempted after it.
C16_Witness ==
  /\ IsIndexCall
  /\ StructureResolved
  /\ PrefixLength = 2
  /\ Len(ResolvedModules) = 3
  /\ \E i \in 1..(Len(ModuleSteps) - 1) :
       /\ ModuleSteps[i].op = "ai.run"
       /\ ~ModuleSteps[i].ok
       /\ PositionOf(ModuleSteps[i]) = 1
       /\ PositionOf(ModuleSteps[i + 1]) = 2
  /\ Payload.indexed = 1

\* The modules this call upserted, and the index entry of one of them.
UpsertedModules ==
  {j \in 1..Len(ResolvedModules) : Upserted(ResolvedModules[j].id)}

EntryId(j) == IndexedTextbook \o <<"_">> \o ResolvedModules[j].id

\* C17: an index_textbook_for_search call leaves in the vector index one
\* entry for each module it upserted, under the id made of textbook id and
\* module id and with the metadata (textbook_id, module_id, title); it adds
\* no other entry and removes none, and every entry that was there before
\* the call, those of an earlier run of the same call included, is there
\* after it with the same contents.
C17_IdempotentUpsert ==
  [][ (IsIndexCall' /\ IsSuccess') =>
        /\ \A j \in UpsertedModules' :
             /\ EntryId(j)' \in DOMAIN VECTORIZE'
             /\ VECTORIZE'[EntryId(j)'].metadata =
                  [module_id |-> ResolvedModules'[j].id,
                   textbook_id |-> IndexedTextbook',
                   title |-> ResolvedModules'[j].title]
        /\ Cardinality({EntryId(j)' : j \in UpsertedModules'}) = Cardinality(UpsertedModules')
        /\ DOMAIN VECTORIZE' = DOMAIN VECTORIZE \cup {EntryId(j)' : j \in UpsertedModules'}
        /\ \A id \in DOMAIN VECTORIZE : VECTORIZE'[id] = VECTORIZE[id] ]_vars

\* Every module of the textbook was indexed again by a call that found the
\* structure and every module content in the cache.
C17_Witness ==
  /\ IsIndexCall
  /\ IsSuccess
  /\ Payload.indexed = 3
  /\ \A i \in 1..Len(calls) : calls[i].op # "fetch"
  /\ Cardinality(DOMAIN VECTORIZE) = 3

\* ------------------------------------------------------------------------
\* Properties of the worker entry point
\* ------------------------------------------------------------------------

\* C13: every response the worker returns (preflight, health, MCP success,
\* MCP error, parse error, default) carries the header
\* Access-Control-Allow-Origin: *.
C13_EveryResponseCarriesCors ==
  httpResponse.kind \in {"preflight", "health", "mcp", "default"} => httpResponse.cors

\* ------------------------------------------------------------------------
\* Properties of the module references
\* ------------------------------------------------------------------------

\* The module elements of a sequence of sibling elements, at any depth.
RECURSIVE ModuleElementsIn(_)
ModuleElementsIn(elements) ==
  UNION {IF elements[i].tag = "module" THEN {elements[i]}
         ELSE ModuleElementsIn(elements[i].children) : i \in 1..Len(elements)}

\* The document without its module elements that lack a document reference.
RECURSIVE WithoutUndocumented(_)
WithoutUndocumented(elements) ==
  IF elements = <<>> THEN <<>>
  ELSE LET e == Head(elements)
       IN (IF e.tag = "subcollection" THEN <<XmlSubcollection(WithoutUndocumented(e.children))>>
           ELSE IF Truthy(e.document) THEN <<e>>
           ELSE <<>>)
          \o WithoutUndocumented(Tail(elements))

\* C14: every module reference extracted from a collection document has a
\* non-empty id and a title, which is the title of a module element with that
\* document reference or 'Untitled' when that element has none; there is one
\* reference for each module element with a document reference, and the
\* references are those, in the same order, of the document from which the
\* module elements without a document reference have been removed.
C14_ModuleReferencesWellFormed ==
  output.done =>
    /\ \A i \in 1..Len(output.modules) :
         /\ Truthy(output.modules[i].id)
         /\ Truthy(output.modules[i].title)
         /\ \E e \in ModuleElementsIn(input.content) :
              /\ e.document = output.modules[i].id
              /\ output.modules[i].title = IF e.title = Undefined THEN s_Untitled ELSE e.title
    /\ Len(output.modules) = Len(DocumentOrder(input.content))
    /\ output.modules =
         extractModules(ParseCollection([content |-> <<WithoutUndocumented(input.content)>>,
                                         metadata |-> <<>>, title |-> <<"T">>]))

\* A module element without a document reference stood between two module
\* elements that have one, the second of them without a title.
C14_Witness ==
  /\ output.done
  /\ Len(input.content) = 3
  /\ input.content[1] = XmlModule(m_c, <<"O", "n", "e">>)
  /\ input.content[2] = XmlModule(Undefined, <<"L">>)
  /\ input.content[3] = XmlModule(m_bc, Undefined)
  /\ output.modules = << [id |-> m_c, title |-> <<"O", "n", "e">>],
                         [id |-> m_bc, title |-> s_Untitled] >>

\* ------------------------------------------------------------------------
\* Properties of the text extractor
\* ------------------------------------------------------------------------

\* The text of the para children of a node, in order, each followed by a
\* blank line, and then the direct text of the node; for a plain text node,
\* its text.
ParagraphsThenOwnText(node) ==
  IF node.kind = "string" THEN node.s
  ELSE Concat([i \in 1..Len(node.para) |-> extractTextContent(node.para[i]) \o <<"\n", "\n">>])
       \o (IF node.s = Undefined THEN <<>> ELSE node.s)

NoOuterWhiteSpace(s) ==
  s = <<>> \/ (s[1] \notin {" ", "\n", "\t"} /\ s[Len(s)] \notin {" ", "\n", "\t"})

\* C15: for a plain text node and for a node with para children and direct
\* text, extractTextContent returns the text of the para children in order,
\* each followed by a blank line, then the direct text of the node, with the
\* whitespace at both ends removed; the result has no leading and no trailing
\* whitespace.
C15_ParagraphsThenOwnTextTrimmed ==
  (input.fn = "extractTextContent" /\ output.done) =>
    /\ output.text = Trim(ParagraphsThenOwnText(input.content))
    /\ NoOuterWhiteSpace(output.text)

\* ------------------------------------------------------------------------
\* Properties of failure handling
\* ------------------------------------------------------------------------

\* The exchange on record is a call of one of the seven tools with arguments.
IsToolRun ==
  /\ IsNamedToolCall
  /\ Request.params.name \in ToolNameSet
  /\ Request.params.arguments.present

SameCall(a, b) == a.op = b.op /\ a.target = b.target /\ a.key = b.key

\* No external call that failed is issued again in the same request.
NoRetry ==
  \A i \in 1..Len(calls) :
    ~calls[i].ok => \A k \in (i + 1)..Len(calls) : ~SameCall(calls[k], calls[i])

\* The failed call i is a step taken for one module inside the indexing loop.
IsModuleStepOfIndexing(i) == IsIndexCall /\ ~IsStructureStep(calls[i])

\* The failed call i ended the operation: nothing was called after it and the
\* request was answered with the internal error code.
Aborted(i) == i = Len(calls) /\ IsErrorWith(-32603) /\ httpResponse.body.id = Request.id

\* The failed call i was counted as a skip: the call returned normally and the
\* module the step was taken for was not upserted and is not counted.
Skipped(i) ==
  /\ IsSuccess
  /\ \E j \in 1..PrefixLength :
       /\ IsStepFor(calls[i], Attempted[j].id)
       /\ ~Upserted(Attempted[j].id)
  /\ Payload.indexed = Cardinality({j \in 1..PrefixLength : Upserted(Attempted[j].id)})

Unchecked == {"media", "collection.xml"}

IsProblemsCall ==
  /\ IsNamedToolCall
  /\ Request.params.name = "generate_practice_problems"
  /\ Request.params.arguments.present

\* The difficulty and the count of the request on record, with their defaults.
RequestedDifficulty ==
  IF Request.params.arguments.difficulty = Undefined
  THEN <<"m", "e", "d", "i", "u", "m">>
  ELSE Request.params.arguments.difficulty

RequestedCount ==
  IF Request.params.arguments.count.given THEN Request.params.arguments.count.n ELSE 5

\* The entry of the triple (textbook id, module id, difficulty) of the request.
ProblemsEntry ==
  <<"p", "r", "o", "b", "l", "e", "m", "s", "_">>
    \o Request.params.arguments.textbook_id \o <<"_">>
    \o Request.params.arguments.module_id \o <<"_">> \o RequestedDifficulty

GenerativeCalls ==
  SelectSeq(calls, LAMBDA call : call.op = "ai.run" /\ call.target = "llama")

IsNotebookCall ==
  /\ IsNamedToolCall
  /\ Request.params.name = "generate_jupyter_notebook"
  /\ Request.params.arguments.present

\* The module content the notebook of the request was assembled from.
ResolvedContent ==
  TEXTBOOK_CACHE[ModuleCacheKey(Request.params.arguments.textbook_id,
                                Request.params.arguments.module_id)]

\* The first n characters of s, or all of s when it has fewer.
FirstChars(s, n) == [i \in 1..(IF Len(s) < n THEN Len(s) ELSE n) |-> s[i]]

ResolvingTools ==
  {"generate_practice_problems", "generate_jupyter_notebook", "index_textbook_for_search"}

\* The exchange on record is a get_module_content call with arguments.
IsModuleCall ==
  /\ IsNamedToolCall
  /\ Request.params.name = "get_module_content"
  /\ Request.params.arguments.present

RequestedModuleKey ==
  ModuleCacheKey(Request.params.arguments.textbook_id, Request.params.arguments.module_id)

\* The exchange on record is a call of a generator or of the indexer.
IsResolvingCall == IsNamedToolCall /\ Request.params.name \in ResolvingTools

NoMediaFetch == \A i \in 1..Len(calls) : ~(calls[i].op = "fetch" /\ calls[i].target = "media")

\* The module entries written during the exchange on record.
ModuleEntriesWritten ==
  {calls[i].key : i \in {j \in 1..Len(calls) :
                           calls[j].op = "kv.put" /\ calls[j].target = "TEXTBOOK_CACHE"
                           /\ IsModuleKey(calls[j].key)}}

C23_WitnessWithImages ==
  /\ IsModuleCall
  /\ Request.params.arguments.module_id = m_bc
  /\ Request.params.arguments.include_images = "false"
  /\ IsSuccess
  /\ Payload.from_cache
  /\ "images" \in DOMAIN Payload

\* ------------------------------------------------------------------------
\* Properties of the failing requests
\* ------------------------------------------------------------------------

\* The exchange on record is a call of a cache-backed tool with arguments.
IsCachedToolCall ==
  /\ IsNamedToolCall
  /\ Request.params.name \in CachedTools
  /\ Request.params.arguments.present

\* The generative call of the exchange on record failed.
GenerativeCallFailed ==
  \E i \in 1..Len(calls) : calls[i].op = "ai.run" /\ ~calls[i].ok

KeyLookedUp == calls[1].key

\* The exchange on record is a call of a content tool that looked up a key.
IsKeyedContentCall ==
  /\ IsContentCall
  /\ Request.params.arguments.present
  /\ calls # <<>>
  /\ calls[1].op = "kv.get"

\* C26: two consecutive calls of content tools that differ in the tool or in
\* the arguments that make up the key (textbook id, module id) look up
\* different keys of the structural region.
C26_KeysSeparateRequests ==
  [][ (IsKeyedContentCall /\ IsKeyedContentCall'
       /\ \/ Request.params.name # Request'.params.name
          \/ [f \in DOMAIN Request.params.arguments \ {"include_images"} |->
                Request.params.arguments[f]]
               # [f \in DOMAIN Request'.params.arguments \ {"include_images"} |->
                    Request'.params.arguments[f]]) =>
        KeyLookedUp # KeyLookedUp' ]_vars

\* ------------------------------------------------------------------------
\* Properties of the CLI bridge
\* ------------------------------------------------------------------------

\* The lines of a text that end with a newline, in order; current is the
\* line being read.
RECURSIVE TerminatedLines(_, _)
TerminatedLines(text, current) ==
  IF text = <<>> THEN <<>>
  ELSE IF Head(text) = "\n" THEN <<current>> \o TerminatedLines(Tail(text), <<>>)
  ELSE TerminatedLines(Tail(text), Append(current, Head(text)))

\* What follows the last newline of a text.
RECURSIVE Unterminated(_, _)
Unterminated(text, current) ==
  IF text = <<>> THEN current
  ELSE IF Head(text) = "\n" THEN Unterminated(Tail(text), <<>>)
  ELSE Unterminated(Tail(text), Append(current, Head(text)))

IsBlank(line) == \A i \in 1..Len(line) : line[i] \in WhiteSpace

IsRequestLine(line) == ~IsBlank(line) /\ JSONparse(line).parses

\* The values of the lines of a text that end with a newline, are not blank
\* and parse, in order.
RequestsIn(text) ==
  LET lines == SelectSeq(TerminatedLines(text, <<>>), IsRequestLine)
  IN [i \in 1..Len(lines) |-> JSONparse(lines[i]).json]

\* C21: whatever the chunks in which the input has arrived, the values handed
\* to post() so far are those of the newline-terminated, non-blank, parsing
\* lines of the text delivered, in order and once each, and the buffer holds
\* what follows the last newline delivered.
C21_ForwardingIgnoresChunking ==
  /\ [i \in 1..Len(posts) |-> posts[i].payload] = RequestsIn(consumed)
  /\ buffer = Unterminated(consumed, <<>>)

\* A chunk has ended inside a line, after a request was handed to post() and
\* a line was passed over.
C21_Witness ==
  /\ Len(posts) >= 1
  /\ Len(TerminatedLines(consumed, <<>>)) > Len(posts)
  /\ buffer # <<>>
  /\ stdin # <<>>
  /\ Head(stdin) # "\n"

\* The ids of the requests whose fetch was started, in order.
ForwardedIds ==
  LET forwarded == SelectSeq(posts, LAMBDA p : p.state # "returned")
  IN [i \in 1..Len(forwarded) |-> Property(forwarded[i].payload, s_id)]

NothingInFlight == \A i \in 1..Len(posts) : posts[i].state \notin {"fetching", "reading"}

\* C25: once every forwarded request has settled, stdout holds one line for
\* each of them, carrying its id, in the order of the requests.
C25_OneResponseLinePerRequest ==
  NothingInFlight =>
    [i \in 1..Len(stdout) |-> Property(stdout[i], s_id)] = ForwardedIds

\* ------------------------------------------------------------------------
\* Properties of requests served concurrently
\* ------------------------------------------------------------------------

Returned(i) == tasks[i].state = "done" /\ ~tasks[i].threw

TaskKey(i) == CacheKeyOf(tasks[i].name, tasks[i].arguments)

\* Task i has fetched, transformed and stored: it returned what it built.
Stored(i) == Returned(i) /\ ~tasks[i].value.from_cache

\* What task i built from its own fetches, as the upstream content and the
\* outcome of its media listing determine it.
OwnPayload(i) ==
  IF tasks[i].name = "get_module_content"
  THEN getModuleContent(Cold, tasks[i].arguments, TRUE, tasks[i].outcomes.mediaOk).value
  ELSE listTextbooks(Cold, tasks[i].arguments, AllOk).value

\* C22: with requests interleaved at their awaits, a payload returned with
\* from_cache true is the payload another request with the same key has
\* fetched, transformed and stored; a payload returned with from_cache false
\* is what the request built from its own fetches; and every stored payload
\* has from_cache false.
C22_InterleavedRequestsKeepCacheSound ==
  /\ \A i \in 1..Len(tasks) :
       (Returned(i) /\ tasks[i].value.from_cache) =>
         \E j \in 1..Len(tasks) :
           /\ j # i
           /\ Stored(j)
           /\ TaskKey(j) = TaskKey(i)
           /\ tasks[i].value = [JsonRoundTrip(tasks[j].value) EXCEPT !.from_cache = TRUE]
  /\ \A i \in 1..Len(tasks) : Stored(i) => tasks[i].value = OwnPayload(i)
  /\ \A k \in DOMAIN TEXTBOOK_CACHE : ~TEXTBOOK_CACHE[k].from_cache

\* Two requests for the same module both missed and both fetched, with
\* different outcomes of the media listing; the single entry under their key
\* is the payload of one of them.
C22_Witness ==
  /\ Len(tasks) = 2
  /\ Stored(1)
  /\ Stored(2)
  /\ tasks[1].arguments = tasks[2].arguments
  /\ tasks[1].value # tasks[2].value
  /\ TaskKey(1) \in DOMAIN TEXTBOOK_CACHE
  /\ TEXTBOOK_CACHE[TaskKey(1)] \in {JsonRoundTrip(tasks[1].value),
                                      JsonRoundTrip(tasks[2].value)}

\* A request was served from the entry a concurrent request had stored.
C22_WitnessServedFromCache ==
  /\ Len(tasks) = 2
  /\ Stored(1)
  /\ Returned(2)
  /\ tasks[2].value.from_cache
  /\ tasks[1].arguments # tasks[2].arguments

====
